---- MODULE Spec2Model ----
(***************************************************************************)
(* Model of the query planner of app/llm_planner.py: the scope validator   *)
(* _db_scope_check, the JSON coercion _coerce_json, the slim catalog and   *)
(* the plan() loop with its single repair request per out-of-scope item.   *)
(* RunSpec models one query through either entry point, the Run handler of *)
(* app/ui_streamlit.py and the loop of app/ask.py: per-database execution  *)
(* with app/exec_sql.py, then federation with llm_generate_final_sql and   *)
(* the analytical engine.                                                  *)
(*                                                                         *)
(* Text (SQL statements, table names, LLM replies) is a sequence of atoms. *)
(* An atom is a short run of characters of one character class: a word     *)
(* (letters, digits, underscore), a dot, a double quote, a blank, a comma, *)
(* a star.  The atoms form a prefix-free code, so two texts are equal as   *)
(* Python strings exactly when they are equal as atom sequences.           *)
(***************************************************************************)
EXTENDS Integers, Sequences, FiniteSets, TLC

VARIABLES
    catalog,      \* catalog_by_db: db_id -> [tables: ordered table entries]
    scope_db,     \* _db_scope_check argument db_id       (ScopeSpec)
    scope_sql,    \* _db_scope_check argument sql         (ScopeSpec)
    scope_res,    \* "unset" before the call, then "pass" / "fail"
    pc,           \* where plan() stands: start, loop, returned, raised
    slim,         \* plan: slim
    raw,          \* plan: raw, the planner reply
    data,         \* plan: data, the parsed planner reply
    per_db,       \* plan: per_db, the candidate items
    idx,          \* plan: position of the for loop in per_db (next item)
    out_list,     \* plan: out_list
    seen_db_ids,  \* plan: seen_db_ids
    llm_log,      \* every _llm_complete call of this plan() call, in order
    out_from,     \* for each entry of out_list, the position of its candidate
    result,       \* what plan() returned, if it returned
    error,        \* the exception plan() raised, if it raised
    entry,        \* the entry point of the query: "ui" (Run handler), "cli" (ask.py)
    dsns,         \* load_dsns(): lower-cased db_id -> DSN
    role,         \* the role selected in the sidebar
    config,       \* config after lines 152-193: the masking configuration, or None
    tag_mappings, \* tag_mappings after lines 152-193: the tag mappings, or None
    logical,      \* logical = handle_query(...): the plan, or that it raised
    run_pc,       \* where the query stands in the entry point
    item_no,      \* position of the per-DB loop in per (next item)
    exec_results, \* exec_results
    per_db_dfs,   \* per_db_dfs, in insertion order
    per_db_metadata, \* per_db_metadata handed to llm_generate_final_sql
    sql_used,     \* sql_used
    final,        \* the final output shown, if any
    shown,        \* what the query has shown to the user so far, in order
    calls,        \* the calls made outside the process, in order
    other,        \* the frame of a plan() call of another session of the process
    sessions,     \* the engine sessions duckdb.connect() has created so far
    query_no      \* the number of the query the entry point is serving

scope_vars == <<scope_db, scope_sql, scope_res>>

plan_vars == <<pc, slim, raw, data, per_db, idx, out_list, seen_db_ids,
               llm_log, out_from, result, error>>

run_vars == <<entry, dsns, role, config,
                   tag_mappings, logical, run_pc, item_no, exec_results,
              per_db_dfs, per_db_metadata, sql_used, final, shown, calls>>

proc_vars == <<other, sessions, query_no>>

vars == <<catalog, scope_vars, plan_vars, run_vars, proc_vars>>

----------------------------------------------------------------------------
(* Bounds of the model *)

\* longest SQL text (in atoms) handed to the scope validator in ScopeSpec
MaxSqlLen == 5

\* most candidate items in the per_db_sql list of a planner reply
MaxItems == 2

\* most of them that never reach the scope check
MaxOddItems == 1

----------------------------------------------------------------------------
(* Text *)

\* words: maximal runs of [A-Za-z0-9_] are built from these
WordAtoms == {"from", "FROM", "join", "JOIN", "select", "public", "sales",
              "orders", "Orders", "clients", "Clients", "invoices", "Invoices"}

Dot   == "."
Quote == "\""
Blank == " "
Comma == ","
Star  == "*"

Atoms == WordAtoms \cup {Dot, Quote, Blank, Comma, Star}

\* str.lower() on one atom
LowerAtom(a) ==
    CASE a = "FROM"     -> "from"
      [] a = "JOIN"     -> "join"
      [] a = "Orders"   -> "orders"
      [] a = "Clients"  -> "clients"
      [] a = "Invoices" -> "invoices"
      [] OTHER          -> a

\* str.lower()
Lower(s) == [i \in 1..Len(s) |-> LowerAtom(s[i])]

\* str.replace('"', '')
RemoveQuotes(s) == SelectSeq(s, LAMBDA a : a # Quote)

\* "." in t
HasDot(s) == \E i \in 1..Len(s) : s[i] = Dot

\* str.strip(): leading and trailing blanks removed
RECURSIVE LStrip(_)
LStrip(s) == IF s # <<>> /\ Head(s) = Blank THEN LStrip(Tail(s)) ELSE s

RECURSIVE RStrip(_)
RStrip(s) ==
    IF s # <<>> /\ s[Len(s)] = Blank THEN RStrip(SubSeq(s, 1, Len(s) - 1)) ELSE s

Strip(s) == RStrip(LStrip(s))

----------------------------------------------------------------------------
(* _db_scope_check: llm_planner.py 243-251 *)

\* the keyword alternation (?:from|join) under re.I
IsKeyword(a) == LowerAtom(a) \in {"from", "join"}

\* the character class [a-zA-Z0-9_\."] of the captured group
NameClass == WordAtoms \cup {Dot, Quote}

\* \b before a keyword: start of text, or a non-word character before it
WordBoundaryBefore(s, i) == i = 1 \/ s[i - 1] \notin WordAtoms

\* last index of the greedy run of atoms of class S that starts at i
\* (i - 1 when the run is empty)
RECURSIVE RunEnd(_, _, _)
RunEnd(s, i, S) ==
    IF i <= Len(s) /\ s[i] \in S THEN RunEnd(s, i + 1, S) ELSE i - 1

\* \s+ after the keyword at i ends here
BlankEnd(s, i) == RunEnd(s, i + 1, {Blank})

\* ([a-zA-Z0-9_\."]+) after the blanks ends here
GroupEnd(s, i) == RunEnd(s, BlankEnd(s, i) + 1, NameClass)

\* the pattern \b(?:from|join)\s+([a-zA-Z0-9_\."]+) matches at position i
MatchAt(s, i) ==
    /\ IsKeyword(s[i])
    /\ WordBoundaryBefore(s, i)
    /\ BlankEnd(s, i) >= i + 1
    /\ GroupEnd(s, i) >= BlankEnd(s, i) + 1

\* m.group(1)
Group(s, i) == SubSeq(s, BlankEnd(s, i) + 1, GroupEnd(s, i))

\* re.finditer from position i: leftmost matches, the scan resuming after each
RECURSIVE FindRefs(_, _)
FindRefs(s, i) ==
    IF i > Len(s) THEN {}
    ELSE IF MatchAt(s, i)
         THEN {Group(s, i)} \cup FindRefs(s, GroupEnd(s, i) + 1)
         ELSE FindRefs(s, i + 1)

\* norm without the default schema qualifier
norm_NoDefaultSchema(t) == RemoveQuotes(t)

\* the inner function norm
norm(t) ==
    LET u == RemoveQuotes(t)
    IN  IF HasDot(u) THEN u ELSE <<"public", Dot>> \o u

\* set((catalog[db_id].get("tables") or {}).keys())
TableKeys(cat, db) == {cat[db].tables[i].fq : i \in 1..Len(cat[db].tables)}

_db_scope_check(db_id, sql, cat) ==
    LET tables == TableKeys(cat, db_id)
        refs   == {Lower(norm(r)) : r \in FindRefs(sql, 1)}
    IN  refs \subseteq {Lower(t) : t \in tables}

----------------------------------------------------------------------------
(* Catalogs *)

TOrders      == <<"public", Dot, "orders">>
TSalesOrders == <<"sales", Dot, "Orders">>
TJoin        == <<"public", Dot, "join">>
TClients     == <<"public", Dot, "clients">>
TInvoices    == <<"public", Dot, "Invoices">>

\* a column of the catalog, and a table entry (key fq, ordered columns)
Col(n, t) == [name |-> n, type |-> t, description |-> "text"]

Table(fq, cols) == [fq |-> fq, columns |-> cols]

\* catalogs the scope validator is exercised on: one database "crm"
ScopeCatalogs ==
    { [crm |-> [tables |-> <<Table(TOrders, <<>>)>>]],
      [crm |-> [tables |-> <<Table(TSalesOrders, <<>>), Table(TJoin, <<>>)>>]],
      [crm |-> [tables |-> <<>>]] }

\* the characters the SQL texts of ScopeSpec are built from
ScopeAtoms == {"from", "JOIN", Blank, Comma, Dot, Quote, "Orders", "sales"}

SqlTexts == UNION {[1..n -> ScopeAtoms] : n \in 0..MaxSqlLen}

----------------------------------------------------------------------------
(* ScopeSpec: the scope validator applied to every bounded SQL text *)

\* the locals of plan() before it has assigned them
PlanLocals ==
    /\ slim = <<>>
    /\ raw = <<>>
    /\ data = [k |-> "none"]
    /\ per_db = <<>>
    /\ idx = 0
    /\ out_list = <<>>
    /\ seen_db_ids = {}
    /\ llm_log = <<>>
    /\ out_from = <<>>
    /\ result = [k |-> "none"]
    /\ error = "none"

\* plan() not yet called
PlanIdle == pc = "start" /\ PlanLocals

\* one query, no other session, no engine session yet
ProcIdle ==
    /\ other = [pc |-> "off"]
    /\ sessions = <<>>
    /\ query_no = 1

\* the entry point before a query: nothing loaded, nothing shown
RunLocals ==
    /\ entry = "ui"
    /\ dsns = <<>>
    /\ role = "admin"
    /\ config = [k |-> "None"]
    /\ tag_mappings = [k |-> "None"]
    /\ logical = [k |-> "none"]
    /\ item_no = 0
    /\ exec_results = <<>>
    /\ per_db_dfs = <<>>
    /\ per_db_metadata = <<>>
    /\ sql_used = <<>>
    /\ final = [k |-> "none"]
    /\ shown = <<>>
    /\ calls = <<>>

\* no query entered yet
RunIdle == run_pc = "idle" /\ RunLocals

ScopeInit ==
    /\ catalog \in ScopeCatalogs
    /\ scope_db = "crm"
    /\ scope_sql \in SqlTexts
    /\ scope_res = "unset"
    /\ PlanIdle
    /\ RunIdle
    /\ ProcIdle

ScopeCheck ==
    /\ scope_res = "unset"
    /\ scope_res' = IF _db_scope_check(scope_db, scope_sql, catalog)
                    THEN "pass" ELSE "fail"
    /\ UNCHANGED <<catalog, proc_vars, scope_db, scope_sql, plan_vars, run_vars>>

ScopeNext == ScopeCheck

ScopeSpec == ScopeInit /\ [][ScopeNext]_vars

----------------------------------------------------------------------------
(* _slim_catalog: llm_planner.py 195-210 *)

max_tables == 150
max_cols   == 80

\* seq[:n]
Take(seq, n) == SubSeq(seq, 1, IF Len(seq) < n THEN Len(seq) ELSE n)

SlimCatalog(cat, maxT, maxC) ==
    [db \in DOMAIN cat |->
        [tables |->
            [i \in 1..Len(Take(cat[db].tables, maxT)) |->
                [fq |-> cat[db].tables[i].fq,
                 columns |->
                    [j \in 1..Len(Take(cat[db].tables[i].columns, maxC)) |->
                        [name |-> cat[db].tables[i].columns[j].name,
                         type |-> cat[db].tables[i].columns[j].type]]]]]]

_slim_catalog(cat) == SlimCatalog(cat, max_tables, max_cols)

----------------------------------------------------------------------------
(* LLM replies.  The text of a reply is a sequence of chunks:                *)
(*   json  : one complete JSON text carrying the value v; the text of an     *)
(*           object starts with { and ends with }, other values (an array,   *)
(*           a number) hold no brace                                         *)
(*   prose : words without braces                                            *)
(*   blank : white space                                                     *)
(*   brace : text that starts with { and ends with } and is not JSON         *)

Json(v) == [c |-> "json", v |-> v]
Prose   == [c |-> "prose"]
Blanks  == [c |-> "blank"]
Brace   == [c |-> "brace"]

\* JSON values: an object of the planner, an object of a repair, anything else
IsObject(v) == v.k \in {"obj", "fix"}

\* text.strip() on a reply
RECURSIVE LStripChunks(_)
LStripChunks(t) ==
    IF t # <<>> /\ Head(t) = Blanks THEN LStripChunks(Tail(t)) ELSE t

RECURSIVE RStripChunks(_)
RStripChunks(t) ==
    IF t # <<>> /\ t[Len(t)] = Blanks
    THEN RStripChunks(SubSeq(t, 1, Len(t) - 1)) ELSE t

StripChunks(t) == RStripChunks(LStripChunks(t))

\* json.loads: the text must be one JSON value, white space around it allowed
JsonLoads(t) ==
    LET body == StripChunks(t)
    IN  IF Len(body) = 1 /\ body[1].c = "json"
        THEN [ok |-> TRUE, v |-> body[1].v]
        ELSE [ok |-> FALSE]

\* the chunk starts with { / ends with }
HasOpenBrace(ch)  == ch.c = "brace" \/ (ch.c = "json" /\ IsObject(ch.v))
HasCloseBrace(ch) == ch.c = "brace" \/ (ch.c = "json" /\ IsObject(ch.v))

\* re.search(r"\{.*\}\s*$", text, re.S): from the first { of the text to its
\* last }, which only white space may follow; <<>> when there is no match
TrailingBlock(t) ==
    LET opens == {i \in 1..Len(t) : HasOpenBrace(t[i])}
        last  == Len(RStripChunks(t))
    IN  IF opens # {} /\ last >= 1 /\ HasCloseBrace(t[last])
        THEN SubSeq(t, CHOOSE i \in opens : \A j \in opens : i <= j, Len(t))
        ELSE <<>>

\* _coerce_json without the recovery through the trailing block
_coerce_json_NoRecovery(text) == JsonLoads(StripChunks(text))

_coerce_json(text) ==
    LET t == StripChunks(text)
    IN  IF JsonLoads(t).ok THEN JsonLoads(t)
        ELSE IF TrailingBlock(t) # <<>> THEN JsonLoads(TrailingBlock(t))
        ELSE [ok |-> FALSE]

\* _llm_complete: the request fails (transport, non-2xx) or returns a text
Failed     == [t |-> "fail"]
Reply(txt) == [t |-> "ok", raw |-> txt]

----------------------------------------------------------------------------
(* JSON values of the replies *)

\* a field that is missing, null or otherwise falsy / a string / a truthy
\* value that is no string (a number)
Absent  == [k |-> "none"]
Str(v)  == [k |-> "str", v |-> v]
NonStr  == [k |-> "other"]
\* a db_id that is a non-empty list: truthy and unhashable
Unhashable == [k |-> "unhashable"]

\* the planner's object {"per_db_sql": ..., "final_sql": ...}
PlanObj(p, f) == [k |-> "obj", per_db_sql |-> p, final_sql |-> f]
\* per_db_sql: key missing / present and no list / a list of items
NoPerDb     == [k |-> "missing"]
NotAList    == [k |-> "notlist"]
ItemList(l) == [k |-> "list", items |-> l]

\* a candidate item {"db_id": ..., "sql": ..., "purpose": ...}, or no object
Item(d, s, p) == [k |-> "dict", db_id |-> d, sql |-> s, purpose |-> p]
NotDict       == [k |-> "other"]

\* the object a repair returns {"db_id": ..., "sql": ..., "purpose": ...}
FixObj(s) == [k |-> "fix", sql |-> s]
\* the same with a db_id and a purpose of its own
FixObjFull(d, s, p) == [k |-> "fix", sql |-> s, db_id |-> d, purpose |-> p]
\* a JSON value that is no object
Other == [k |-> "other"]

\* v.get("sql")
GetSql(v) == IF "sql" \in DOMAIN v THEN v.sql ELSE Absent

----------------------------------------------------------------------------
(* The inputs of plan(): catalogs and LLM replies *)

SqlClients  == <<"select", Blank, Star, Blank, "from", Blank, "clients">>
SqlInvoices == <<"select", Blank, Star, Blank, "FROM", Blank, Quote, "public",
                 Quote, Dot, Quote, "invoices", Quote, Blank>>
SqlCross    == <<"select", Blank, Star, Blank, "from", Blank, "clients", Blank,
                 "JOIN", Blank, "invoices">>
\* a comma-separated FROM list: clients and a table of no database
SqlComma    == <<"select", Blank, Star, Blank, "from", Blank, "clients", Comma,
                 Blank, "orders">>
SqlBlank    == <<Blank>>
FinalText   == <<"select", Blank, Star, Blank>>
\* a final_sql over the tables of both databases, blanks on either side
FinalCross  == <<Blank>> \o SqlCross \o <<Blank>>

\* crm: public.clients(id int, name text);
\* billing: public.Invoices(client_id int, amount numeric)
PlanCatalogs ==
    { [crm     |-> [tables |-> <<Table(TClients,
                        <<Col("id", "int"), Col("name", "text")>>)>>],
       billing |-> [tables |-> <<Table(TInvoices,
                        <<Col("client_id", "int"), Col("amount", "numeric")>>)>>]] }

\* a catalog larger than what _slim_catalog keeps: crm has max_tables + 1
\* tables, public.clients first and public.Invoices last, and public.clients
\* has max_cols + 1 columns; billing is as above
BigCatalogs ==
    { [crm     |-> [tables |->
                      <<Table(TClients,
                          <<Col("id", "int"), Col("name", "text")>> \o
                          [j \in 1..(max_cols - 1) |-> Col(ToString(j + 2), "text")])>> \o
                      [i \in 1..(max_tables - 1) |->
                          Table(<<"public", Dot, ToString(i + 1)>>, <<Col("id", "int")>>)] \o
                      <<Table(TInvoices, <<Col("client_id", "int")>>)>>],
       billing |-> [tables |-> <<Table(TInvoices,
                        <<Col("client_id", "int"), Col("amount", "numeric")>>)>>]] }

\* candidate items that reach the scope check
CoreCandidates ==
    { Item(Str("crm"), Str(SqlClients), Absent),
      Item(Str("crm"), Str(SqlCross), Absent),
      Item(Str("crm"), Str(SqlComma), Absent),
      Item(Str("billing"), Str(SqlInvoices), Absent),
      Item(Str("billing"), Str(SqlClients), Str("p")) }

\* candidate items that are skipped, or raise, before the scope check
OddCandidates ==
    { NotDict,
      Item(Absent, Str(SqlClients), Absent),
      Item(Unhashable, Str(SqlClients), Absent),
      Item(Str("hr"), Str(SqlClients), Absent),
      Item(Str("CRM"), Str(SqlClients), Absent),
      Item(Str("crm"), Absent, Absent),
      Item(Str("crm"), Str(SqlBlank), Absent),
      Item(Str("crm"), NonStr, Absent),
      Item(Str("hr"), NonStr, Absent) }

Candidates == CoreCandidates \cup OddCandidates

\* the per_db_sql lists of the planner replies
ItemLists ==
    {l \in UNION {[1..n -> Candidates] : n \in 0..MaxItems} :
        Cardinality({i \in 1..Len(l) : l[i] \in OddCandidates}) <= MaxOddItems}

\* a small object, laid out in the reply in every way
SmallObj == PlanObj(ItemList(<<Item(Str("crm"), Str(SqlCross), Absent)>>),
                    Str(FinalText))

PlannerTexts ==
    {<<Json(PlanObj(ItemList(l), Str(FinalText)))>> : l \in ItemLists}
    \cup {<<Json(PlanObj(p, f))>> :
            p \in {NoPerDb, NotAList, ItemList(<<Item(Str("crm"), Str(SqlClients), Absent)>>)},
            f \in {Absent, NonStr, Str(FinalText), Str(FinalCross)}}
    \cup {<<>>, <<Prose>>, <<Json(Other)>>, <<Brace>>,
          <<Blanks, Json(SmallObj), Blanks>>,
          <<Prose, Json(SmallObj)>>,
          <<Prose, Blanks, Json(SmallObj), Blanks>>,
          <<Json(SmallObj), Prose>>,
          <<Brace, Json(SmallObj)>>,
          <<Json(SmallObj), Blanks, Json(SmallObj)>>,
          <<Prose, Json(Other)>>,
          <<Prose, Brace>>}

PlannerReplies == {Failed} \cup {Reply(t) : t \in PlannerTexts}

RepairTexts ==
    {<<Prose>>, <<Json(Other)>>,
     <<Json(FixObj(Absent))>>, <<Json(FixObj(NonStr))>>,
     <<Json(FixObj(Str(SqlCross)))>>,
     <<Json(FixObj(Str(SqlClients)))>>,
     <<Json(FixObj(Str(SqlInvoices)))>>,
     <<Json(FixObjFull(Str("billing"), Str(SqlClients), Str("other")))>>,
     <<Prose, Json(FixObj(Str(SqlClients))), Blanks>>}

RepairReplies == {Failed} \cup {Reply(t) : t \in RepairTexts}

----------------------------------------------------------------------------
(* plan: llm_planner.py 253-308 *)

\* (item.get("sql") or "").strip() for a string or a falsy value
SqlOf(field) == IF field.k = "str" THEN Strip(field.v) ELSE <<>>

\* item.get("purpose") or "query"
PurposeOf(field) == IF field.k = "str" THEN field.v ELSE "query"

\* ItemPath without the test db_id in seen_db_ids
ItemPath_NoSeen(item, seen, slimcat) ==
    IF item.k # "dict" THEN "skip"
    ELSE IF item.db_id.k = "none" THEN "skip"
    ELSE IF item.db_id.k = "unhashable" THEN "TypeError"
    ELSE IF item.sql.k = "other" THEN "AttributeError"
    ELSE IF SqlOf(item.sql) = <<>> THEN "skip"
    ELSE IF item.db_id.v \notin DOMAIN slimcat THEN "skip"
    ELSE IF _db_scope_check(item.db_id.v, SqlOf(item.sql), slimcat) THEN "accept"
    ELSE "repair"

\* what one pass of the loop body does with the item, up to the scope check
ItemPath(item, seen, slimcat) ==
    IF item.k # "dict" THEN "skip"
    ELSE IF item.db_id.k = "none" THEN "skip"
    ELSE IF item.db_id.k = "unhashable" THEN "TypeError"
    ELSE IF item.db_id.v \in seen THEN "skip"
    ELSE IF item.sql.k = "other" THEN "AttributeError"
    ELSE IF SqlOf(item.sql) = <<>> THEN "skip"
    ELSE IF item.db_id.v \notin DOMAIN slimcat THEN "skip"
    ELSE IF _db_scope_check(item.db_id.v, SqlOf(item.sql), slimcat) THEN "accept"
    ELSE "repair"

\* RepairedSql without the second scope check
RepairedSql_NoRecheck(db_id, txt, slimcat) ==
    LET fixed == _coerce_json(txt)
    IN  IF /\ fixed.ok
           /\ IsObject(fixed.v)
           /\ GetSql(fixed.v).k # "other"
           /\ SqlOf(GetSql(fixed.v)) # <<>>
        THEN SqlOf(GetSql(fixed.v))
        ELSE <<>>

\* the sql of a repair reply if it is to be accepted for db_id, <<>> if the
\* item is to be dropped (lines 291-300: any exception is swallowed)
RepairedSql(db_id, txt, slimcat) ==
    LET fixed == _coerce_json(txt)
    IN  IF /\ fixed.ok
           /\ IsObject(fixed.v)
           /\ GetSql(fixed.v).k # "other"
           /\ SqlOf(GetSql(fixed.v)) # <<>>
           /\ _db_scope_check(db_id, SqlOf(GetSql(fixed.v)), slimcat)
        THEN SqlOf(GetSql(fixed.v))
        ELSE <<>>

\* FinalSqlOf without the strip
FinalSqlOf_NoStrip(d) == IF d.final_sql.k = "str" THEN d.final_sql.v ELSE <<>>

\* data.get("final_sql", ""), "" unless a string, stripped
FinalSqlOf(d) == IF d.final_sql.k = "str" THEN Strip(d.final_sql.v) ELSE <<>>

Raise(e) ==
    /\ pc' = "raised"
    /\ error' = e

\* PlanRequest with the catalog cut down in place
PlanRequest_SlimInPlace ==
    /\ pc = "start"
    /\ \E reply \in PlannerReplies :
        /\ llm_log' = Append(llm_log, [kind |-> "plan", item |-> 0, reply |-> reply])
        /\ slim' = _slim_catalog(catalog)
        /\ IF reply.t = "fail"
           THEN Raise("HTTPError") /\ UNCHANGED <<raw, data, per_db, idx, out_list, seen_db_ids>>
           ELSE /\ raw' = reply.raw
                /\ LET parsed == _coerce_json(reply.raw)
                   IN  IF ~parsed.ok
                       THEN Raise("ValueError") /\ UNCHANGED <<data, per_db, idx, out_list, seen_db_ids>>
                       ELSE /\ data' = parsed.v
                            /\ IF ~IsObject(parsed.v)
                               THEN /\ Raise("AttributeError")
                                    /\ UNCHANGED <<per_db, idx, out_list, seen_db_ids>>
                               ELSE IF parsed.v.per_db_sql.k = "notlist"
                               THEN /\ Raise("ValueError")
                                    /\ UNCHANGED <<per_db, idx, out_list, seen_db_ids>>
                               ELSE /\ per_db' = IF parsed.v.per_db_sql.k = "list"
                                                 THEN parsed.v.per_db_sql.items
                                                 ELSE <<>>
                                    /\ out_list' = <<>>
                                    /\ seen_db_ids' = {}
                                    /\ idx' = 1
                                    /\ pc' = "loop"
                                    /\ UNCHANGED error
    /\ catalog' = _slim_catalog(catalog)
    /\ UNCHANGED <<proc_vars, scope_vars, run_vars, out_from, result>>

\* PlanRequest with the accepted list and the seen set kept from call to call
PlanRequest_SharedLists ==
    /\ pc = "start"
    /\ \E reply \in PlannerReplies :
        /\ llm_log' = Append(llm_log, [kind |-> "plan", item |-> 0, reply |-> reply])
        /\ slim' = _slim_catalog(catalog)
        /\ IF reply.t = "fail"
           THEN Raise("HTTPError") /\ UNCHANGED <<raw, data, per_db, idx, out_list, seen_db_ids>>
           ELSE /\ raw' = reply.raw
                /\ LET parsed == _coerce_json(reply.raw)
                   IN  IF ~parsed.ok
                       THEN Raise("ValueError") /\ UNCHANGED <<data, per_db, idx, out_list, seen_db_ids>>
                       ELSE /\ data' = parsed.v
                            /\ IF ~IsObject(parsed.v)
                               THEN /\ Raise("AttributeError")
                                    /\ UNCHANGED <<per_db, idx, out_list, seen_db_ids>>
                               ELSE IF parsed.v.per_db_sql.k = "notlist"
                               THEN /\ Raise("ValueError")
                                    /\ UNCHANGED <<per_db, idx, out_list, seen_db_ids>>
                               ELSE /\ per_db' = IF parsed.v.per_db_sql.k = "list"
                                                 THEN parsed.v.per_db_sql.items
                                                 ELSE <<>>
                                    /\ UNCHANGED <<out_list, seen_db_ids>>
                                    /\ idx' = 1
                                    /\ pc' = "loop"
                                    /\ UNCHANGED error
    /\ UNCHANGED <<catalog, proc_vars, scope_vars, run_vars, out_from, result>>

\* lines 255-266: slim catalog, planning request, parse, per_db_sql
PlanRequest ==
    /\ pc = "start"
    /\ \E reply \in PlannerReplies :
        /\ llm_log' = Append(llm_log, [kind |-> "plan", item |-> 0, reply |-> reply])
        /\ slim' = _slim_catalog(catalog)
        /\ IF reply.t = "fail"
           THEN Raise("HTTPError") /\ UNCHANGED <<raw, data, per_db, idx, out_list, seen_db_ids>>
           ELSE /\ raw' = reply.raw
                /\ LET parsed == _coerce_json(reply.raw)
                   IN  IF ~parsed.ok
                       THEN Raise("ValueError") /\ UNCHANGED <<data, per_db, idx, out_list, seen_db_ids>>
                       ELSE /\ data' = parsed.v
                            /\ IF ~IsObject(parsed.v)
                               THEN /\ Raise("AttributeError")
                                    /\ UNCHANGED <<per_db, idx, out_list, seen_db_ids>>
                               ELSE IF parsed.v.per_db_sql.k = "notlist"
                               THEN /\ Raise("ValueError")
                                    /\ UNCHANGED <<per_db, idx, out_list, seen_db_ids>>
                               ELSE /\ per_db' = IF parsed.v.per_db_sql.k = "list"
                                                 THEN parsed.v.per_db_sql.items
                                                 ELSE <<>>
                                    /\ out_list' = <<>>
                                    /\ seen_db_ids' = {}
                                    /\ idx' = 1
                                    /\ pc' = "loop"
                                    /\ UNCHANGED error
    /\ UNCHANGED <<catalog, proc_vars, scope_vars, run_vars, out_from, result>>

InLoop == pc = "loop" /\ idx <= Len(per_db)

\* the continue statements of lines 268-278
SkipItem ==
    /\ InLoop
    /\ ItemPath(per_db[idx], seen_db_ids, slim) = "skip"
    /\ idx' = idx + 1
    /\ UNCHANGED <<catalog, proc_vars, scope_vars, run_vars, pc, slim, raw, data, per_db, out_list,
                   seen_db_ids, llm_log, out_from, result, error>>

\* lines 271 and 273 on a db_id that cannot be hashed, an sql that is no string
RaiseItem ==
    /\ InLoop
    /\ ItemPath(per_db[idx], seen_db_ids, slim) \in {"TypeError", "AttributeError"}
    /\ Raise(ItemPath(per_db[idx], seen_db_ids, slim))
    /\ UNCHANGED <<catalog, proc_vars, scope_vars, run_vars, slim, raw, data, per_db, idx, out_list,
                   seen_db_ids, llm_log, out_from, result>>

\* AcceptItem without seen_db_ids.add(db_id)
AcceptItem_NoSeen ==
    /\ InLoop
    /\ ItemPath(per_db[idx], seen_db_ids, slim) = "accept"
    /\ out_list' = Append(out_list, [db_id   |-> per_db[idx].db_id.v,
                                     sql     |-> SqlOf(per_db[idx].sql),
                                     purpose |-> PurposeOf(per_db[idx].purpose)])
    /\ out_from' = Append(out_from, idx)
    /\ idx' = idx + 1
    /\ UNCHANGED <<catalog, proc_vars, scope_vars, run_vars, pc, slim, raw, data, per_db, llm_log,
                   seen_db_ids, result, error>>

\* lines 301-302
AcceptItem ==
    /\ InLoop
    /\ ItemPath(per_db[idx], seen_db_ids, slim) = "accept"
    /\ out_list' = Append(out_list, [db_id   |-> per_db[idx].db_id.v,
                                     sql     |-> SqlOf(per_db[idx].sql),
                                     purpose |-> PurposeOf(per_db[idx].purpose)])
    /\ seen_db_ids' = seen_db_ids \cup {per_db[idx].db_id.v}
    /\ out_from' = Append(out_from, idx)
    /\ idx' = idx + 1
    /\ UNCHANGED <<catalog, proc_vars, scope_vars, run_vars, pc, slim, raw, data, per_db, llm_log,
                   result, error>>

\* a failed repair request swallowed like an unusable reply
RepairFailed_Swallowed ==
    /\ idx' = idx + 1
    /\ UNCHANGED <<pc, error, out_list, seen_db_ids, out_from>>

\* a failed repair request sent again
RepairFailed_Retried ==
    UNCHANGED <<pc, error, idx, out_list, seen_db_ids, out_from>>

\* line 290: the repair request fails; the call is outside the try block
RepairFailed ==
    /\ Raise("HTTPError")
    /\ UNCHANGED <<idx, out_list, seen_db_ids, out_from>>

\* the item asked about again when its repair is of no use
TryRepaired_Retry(txt) ==
    LET db_id == per_db[idx].db_id.v
        sql2  == RepairedSql(db_id, txt, slim)
    IN  /\ UNCHANGED <<pc, error>>
        /\ IF sql2 # <<>>
           THEN /\ out_list' = Append(out_list,
                        [db_id   |-> db_id,
                         sql     |-> sql2,
                         purpose |-> PurposeOf(per_db[idx].purpose)])
                /\ seen_db_ids' = seen_db_ids \cup {db_id}
                /\ out_from' = Append(out_from, idx)
                /\ idx' = idx + 1
           ELSE UNCHANGED <<idx, out_list, seen_db_ids, out_from>>

\* the db_id of a dropped item marked as seen
TryRepaired_DropMarksSeen(txt) ==
    LET db_id == per_db[idx].db_id.v
        sql2  == RepairedSql(db_id, txt, slim)
    IN  /\ idx' = idx + 1
        /\ UNCHANGED <<pc, error>>
        /\ seen_db_ids' = seen_db_ids \cup {db_id}
        /\ IF sql2 # <<>>
           THEN /\ out_list' = Append(out_list,
                        [db_id   |-> db_id,
                         sql     |-> sql2,
                         purpose |-> PurposeOf(per_db[idx].purpose)])
                /\ out_from' = Append(out_from, idx)
           ELSE UNCHANGED <<out_list, out_from>>

\* the accepted item given the db_id and the purpose of the repair reply
TryRepaired_ReplyIdentity(txt) ==
    LET db_id == per_db[idx].db_id.v
        sql2  == RepairedSql(db_id, txt, slim)
        fixed == _coerce_json(txt).v
    IN  /\ idx' = idx + 1
        /\ UNCHANGED <<pc, error>>
        /\ IF sql2 # <<>>
           THEN /\ out_list' = Append(out_list,
                        [db_id   |-> IF "db_id" \in DOMAIN fixed
                                     THEN fixed.db_id.v ELSE db_id,
                         sql     |-> sql2,
                         purpose |-> IF "purpose" \in DOMAIN fixed
                                     THEN fixed.purpose.v
                                     ELSE PurposeOf(per_db[idx].purpose)])
                /\ seen_db_ids' = seen_db_ids \cup {db_id}
                /\ out_from' = Append(out_from, idx)
           ELSE UNCHANGED <<out_list, seen_db_ids, out_from>>

\* lines 291-300: the repair reply is used if its sql is in scope, the item
\* is dropped otherwise; then the loop goes on
TryRepaired(txt) ==
    LET db_id == per_db[idx].db_id.v
        sql2  == RepairedSql(db_id, txt, slim)
    IN  /\ idx' = idx + 1
        /\ UNCHANGED <<pc, error>>
        /\ IF sql2 # <<>>
           THEN /\ out_list' = Append(out_list,
                        [db_id   |-> db_id,
                         sql     |-> sql2,
                         purpose |-> PurposeOf(per_db[idx].purpose)])
                /\ seen_db_ids' = seen_db_ids \cup {db_id}
                /\ out_from' = Append(out_from, idx)
           ELSE UNCHANGED <<out_list, seen_db_ids, out_from>>

\* lines 279-300: one repair request for an item that fails the scope check
RepairItem ==
    /\ InLoop
    /\ ItemPath(per_db[idx], seen_db_ids, slim) = "repair"
    /\ \E reply \in RepairReplies :
        /\ llm_log' = Append(llm_log, [kind |-> "repair", item |-> idx, reply |-> reply])
        /\ IF reply.t = "fail" THEN RepairFailed ELSE TryRepaired(reply.raw)
    /\ UNCHANGED <<catalog, proc_vars, scope_vars, run_vars, slim, raw, data, per_db, result>>

\* lines 304-308
Return ==
    /\ pc = "loop"
    /\ idx > Len(per_db)
    /\ result' = [k |-> "plan", per_db_sql |-> out_list, final_sql |-> FinalSqlOf(data)]
    /\ pc' = "returned"
    /\ UNCHANGED <<catalog, proc_vars, scope_vars, run_vars, slim, raw, data, per_db, idx, out_list,
                   seen_db_ids, llm_log, out_from, error>>

Init ==
    /\ catalog \in PlanCatalogs
    /\ scope_db = "crm"
    /\ scope_sql = <<>>
    /\ scope_res = "unset"
    /\ PlanIdle
    /\ RunIdle
    /\ ProcIdle

\* one pass of the for loop of line 267, or the return after it
LoopBody == SkipItem \/ RaiseItem \/ AcceptItem \/ RepairItem \/ Return

Next ==
    \/ PlanRequest
    \/ SkipItem
    \/ RaiseItem
    \/ AcceptItem
    \/ RepairItem
    \/ Return

Spec == Init /\ [][Next]_vars

\* plan() called with a catalog that _slim_catalog has to cut
BigInit ==
    /\ catalog \in BigCatalogs
    /\ scope_db = "crm"
    /\ scope_sql = <<>>
    /\ scope_res = "unset"
    /\ PlanIdle
    /\ RunIdle
    /\ ProcIdle

BigSpec == BigInit /\ [][Next]_vars


----------------------------------------------------------------------------
(* What a statement refers to, stated on the text and not on the pattern scan *)

NameChar(a) == a \notin {Blank, Comma, Star}

IsFromOrJoin(a) == a \in {"from", "FROM", "join", "JOIN"}

\* first position after i that holds no blank (Len + 1 when there is none)
NameStart(s, i) ==
    CHOOSE b \in (i + 1)..(Len(s) + 1) :
        /\ \A j \in (i + 1)..(b - 1) : s[j] = Blank
        /\ b = Len(s) + 1 \/ s[b] # Blank

\* last position of the name that starts at b (b - 1 when no name starts there)
NameStop(s, b) ==
    CHOOSE e \in (b - 1)..Len(s) :
        /\ \A j \in b..e : NameChar(s[j])
        /\ e = Len(s) \/ ~NameChar(s[e + 1])

NameAfter(s, i) == SubSeq(s, NameStart(s, i), NameStop(s, NameStart(s, i)))

\* position i holds a FROM or JOIN keyword directly followed by a table name:
\* a whole word, at least one blank, a name, and the word is not itself part
\* of the table name that follows an earlier keyword
RECURSIVE KeywordAt(_, _)
KeywordAt(s, i) ==
    /\ IsFromOrJoin(s[i])
    /\ i = 1 \/ s[i - 1] \in {Blank, Comma, Star, Dot, Quote}
    /\ NameStart(s, i) > i + 1
    /\ NameStop(s, NameStart(s, i)) >= NameStart(s, i)
    /\ ~\E k \in 1..(i - 1) :
            /\ KeywordAt(s, k)
            /\ i \in NameStart(s, k)..NameStop(s, NameStart(s, k))

\* double quotes removed, 'public.' put before a name without a dot, lower-cased
Normalized(name) ==
    LET bare == SelectSeq(name, LAMBDA a : a # Quote)
    IN  Lower(IF \E j \in 1..Len(bare) : bare[j] = Dot
              THEN bare ELSE <<"public", Dot>> \o bare)

\* the normalized table names that directly follow a FROM or JOIN keyword
KeywordTables(s) ==
    {Normalized(NameAfter(s, i)) : i \in {j \in 1..Len(s) : KeywordAt(s, j)}}

\* the lower-cased table names of catalog[db]
KnownTables(cat, db) ==
    {Lower(cat[db].tables[k].fq) : k \in 1..Len(cat[db].tables)}

\* a plain table name: word or word.word, no keyword in it
PlainName(n) ==
    /\ Len(n) \in {1, 3}
    /\ \A j \in 1..Len(n) :
          IF j = 2 THEN n[j] = Dot ELSE n[j] \in WordAtoms /\ ~IsFromOrJoin(n[j])

\* position p starts a table the statement reads: the name after a FROM or JOIN
\* keyword, or a later entry of the comma-separated list such a name starts
RECURSIVE TableStartsAt(_, _)
TableStartsAt(s, p) ==
    \/ \E k \in 1..(p - 1) : KeywordAt(s, k) /\ NameStart(s, k) = p
    \/ /\ PlainName(SubSeq(s, p, NameStop(s, p)))
       /\ \E c \in 1..(p - 1) :
            /\ s[c] = Comma
            /\ NameStart(s, c) = p
            /\ \E q \in 1..(c - 1) :
                 /\ TableStartsAt(s, q)
                 /\ NameStart(s, NameStop(s, q)) = c

\* the normalized names of all tables the statement reads
TablesRead(s) ==
    {Normalized(SubSeq(s, p, NameStop(s, p))) :
        p \in {q \in 1..Len(s) : TableStartsAt(s, q)}}

----------------------------------------------------------------------------
(* Claims about the scope validator, checked under ScopeSpec *)

C2_InjectionSound ==
    scope_res # "unset" =>
        ((\E n \in TablesRead(scope_sql) :
              n \notin KnownTables(catalog, scope_db))
            => scope_res = "fail")

----------------------------------------------------------------------------
(* Claims about plan(), checked under Spec *)

Range(f) == {f[i] : i \in DOMAIN f}

Returned == pc = "returned"

\* the positions in llm_log of the repair requests, and of those for item i
RepairCalls == {k \in 1..Len(llm_log) : llm_log[k].kind = "repair"}

RepairCallsFor(i) == {k \in RepairCalls : llm_log[k].item = i}

PlanCalls == {k \in 1..Len(llm_log) : llm_log[k].kind = "plan"}

\* every FROM/JOIN reference of sql is a table of database db
InScope(db, sql) == KeywordTables(sql) \subseteq KnownTables(catalog, db)

\* candidate i carries a string db_id / its db_id / its stripped sql text
HasDbId(i) == per_db[i].k = "dict" /\ per_db[i].db_id.k = "str"

DbIdOf(i) == per_db[i].db_id.v

HasSql(i) == per_db[i].k = "dict" /\ per_db[i].sql.k = "str"
                /\ Strip(per_db[i].sql.v) # <<>>

SqlTextOf(i) == Strip(per_db[i].sql.v)

\* candidate i was accepted / the entry of out_list it became
Accepted(i) == i \in Range(out_from)

EntryOf(i) == out_list[CHOOSE m \in 1..Len(out_from) : out_from[m] = i]

\* the db_ids accepted from the candidates before position i
AcceptedBefore(i) ==
    {out_list[m].db_id : m \in {n \in 1..Len(out_list) : out_from[n] < i}}

\* the sql a repair reply offers: the stripped "sql" string of the object the
\* reply parses to; <<>> when the request failed, the reply is unparseable or
\* no object, or its sql is missing, empty or no string
OfferedSql(reply) ==
    IF reply.t = "fail" THEN <<>>
    ELSE LET fixed == _coerce_json(reply.raw)
         IN  IF fixed.ok /\ IsObject(fixed.v) /\ GetSql(fixed.v).k = "str"
             THEN Strip(GetSql(fixed.v).v) ELSE <<>>

\* C3: every item of a returned plan has a db_id of the catalog, a non-empty
\* sql and an sql within the scope of that db_id; a statement that failed the
\* scope check, original or repaired, is never part of out_list or of a
\* returned plan.
C3_PlanItemsValid ==
    /\ \A m \in 1..Len(out_list) :
          /\ out_list[m].db_id \in DOMAIN catalog
          /\ out_list[m].sql # <<>>
          /\ InScope(out_list[m].db_id, out_list[m].sql)
    /\ Returned =>
          /\ result.k = "plan"
          /\ \A m \in 1..Len(result.per_db_sql) :
                /\ result.per_db_sql[m].db_id \in DOMAIN catalog
                /\ result.per_db_sql[m].sql # <<>>
                /\ InScope(result.per_db_sql[m].db_id, result.per_db_sql[m].sql)
          /\ \A k \in RepairCalls :
                LET i == llm_log[k].item
                IN  \A m \in 1..Len(result.per_db_sql) :
                        result.per_db_sql[m].db_id = DbIdOf(i) =>
                            /\ result.per_db_sql[m].sql # SqlTextOf(i)
                            /\ ~InScope(DbIdOf(i), OfferedSql(llm_log[k].reply)) =>
                                  result.per_db_sql[m].sql # OfferedSql(llm_log[k].reply)

\* a returned plan of two items, one of them accepted after a repair
C3_Witness ==
    /\ Returned
    /\ Len(result.per_db_sql) = 2
    /\ \E k \in RepairCalls : Accepted(llm_log[k].item)

\* C4: a returned plan never holds two items with the same db_id.
C4_UniqueDbIds ==
    Returned =>
        \A m, n \in 1..Len(result.per_db_sql) :
            m # n => result.per_db_sql[m].db_id # result.per_db_sql[n].db_id

\* two acceptable candidates for the same db_id, one item in the plan
C4_Witness ==
    /\ Returned
    /\ Len(result.per_db_sql) = 1
    /\ \E i, j \in 1..Len(per_db) :
          /\ i < j
          /\ HasDbId(i) /\ HasDbId(j) /\ DbIdOf(i) = DbIdOf(j)
          /\ HasSql(i) /\ InScope(DbIdOf(i), SqlTextOf(i))
          /\ HasSql(j) /\ InScope(DbIdOf(j), SqlTextOf(j))

\* C5 as claimed: of two candidates with the same db_id the second is never
\* part of the returned plan, also when the first was skipped or dropped.
C5_SecondNeverAccepted ==
    Returned =>
        \A i, j \in 1..Len(per_db) :
            (i < j /\ HasDbId(i) /\ HasDbId(j) /\ DbIdOf(i) = DbIdOf(j))
                => ~Accepted(j)

\* C5 as amended: of two candidates with the same db_id the second is never
\* part of the returned plan once the first was accepted; a first one that
\* was skipped or dropped does not count, and a later candidate for that
\* db_id whose sql is in scope is then accepted like any other.
C5_FirstAcceptedWins ==
    Returned =>
        /\ \A i, j \in 1..Len(per_db) :
              (i < j /\ HasDbId(i) /\ HasDbId(j) /\ DbIdOf(i) = DbIdOf(j)
                  /\ Accepted(i)) => ~Accepted(j)
        /\ \A j \in 1..Len(per_db) :
              (/\ HasDbId(j) /\ DbIdOf(j) \in DOMAIN catalog
               /\ HasSql(j) /\ InScope(DbIdOf(j), SqlTextOf(j))
               /\ \A i \in 1..(j - 1) :
                     (HasDbId(i) /\ DbIdOf(i) = DbIdOf(j)) => ~Accepted(i))
                  => Accepted(j)

\* the first of two candidates for a db_id accepted, the second, in scope
\* too, left out
C5_Witness ==
    /\ Returned
    /\ \E i, j \in 1..Len(per_db) :
          /\ i < j
          /\ HasDbId(i) /\ HasDbId(j) /\ DbIdOf(i) = DbIdOf(j)
          /\ Accepted(i) /\ ~Accepted(j)
          /\ HasSql(j) /\ InScope(DbIdOf(j), SqlTextOf(j))

\* candidate i reached the scope check of line 279 and failed it
FailedScopeCheck(i) ==
    /\ HasDbId(i)
    /\ DbIdOf(i) \notin AcceptedBefore(i)
    /\ HasSql(i)
    /\ DbIdOf(i) \in DOMAIN catalog
    /\ ~InScope(DbIdOf(i), SqlTextOf(i))

\* the loop body has run on candidate i
Processed(i) == i < idx \/ (i = idx /\ pc = "raised" /\ idx >= 1)

C6_Inv ==
    /\ idx <= Len(per_db) + 1
    /\ \A i \in 1..Len(per_db) :
          /\ Cardinality(RepairCallsFor(i)) <= 1
          /\ (Processed(i) /\ FailedScopeCheck(i))
                => Cardinality(RepairCallsFor(i)) = 1
          /\ \A k \in RepairCallsFor(i) :
                LET sql2 == OfferedSql(llm_log[k].reply)
                IN  /\ Processed(i)
                    /\ IF sql2 # <<>> /\ InScope(DbIdOf(i), sql2)
                       THEN Accepted(i) /\ EntryOf(i).sql = sql2
                       ELSE ~Accepted(i)
    /\ pc = "start" => ENABLED PlanRequest
    /\ pc = "loop" => ENABLED LoopBody
    /\ Returned => idx = Len(per_db) + 1

\* one pass of the loop moves to the next candidate or ends the call
C6_Step ==
    pc = "loop" =>
        \/ idx' = idx + 1 /\ pc' = "loop" /\ idx <= Len(per_db)
        \/ idx' = idx /\ pc' \in {"returned", "raised"}

\* C6: an item that fails the scope check gets exactly one repair request and
\* never a second; it is accepted, with the repaired sql, only if that sql is
\* non-empty and in scope, and is absent from the plan otherwise; plan visits
\* each candidate once, in order, and then ends.
C6_RepairOnce == []C6_Inv /\ [][C6_Step]_vars

\* plan returned after a repair whose sql still failed: the item is absent
C6_Witness ==
    /\ Returned
    /\ \E k \in RepairCalls :
          /\ OfferedSql(llm_log[k].reply) # <<>>
          /\ ~Accepted(llm_log[k].item)

\* C7 as claimed: one plan call issues at most one repair request in total.
C7_OneRepairPerPlan == Cardinality(RepairCalls) <= 1

\* C7 as amended: one plan call issues the planning request once, first, and
\* then at most one repair request per candidate item of the reply, in the
\* order of the candidates: at most as many repair requests as candidates.
C7_RepairsPerItem ==
    /\ Cardinality(PlanCalls) <= 1
    /\ pc # "start" => PlanCalls = {1}
    /\ Cardinality(RepairCalls) <= Len(per_db)
    /\ \A k, l \in RepairCalls : k < l => llm_log[k].item < llm_log[l].item

\* a plan call that issued two repair requests
C7_Witness == Returned /\ Cardinality(RepairCalls) = 2

\* candidate i ends up in the plan, whatever stands around it: it names a
\* database of the catalog and has an sql that is in scope, as it stands or
\* as its repair reply offered it
Viable(i) ==
    /\ HasDbId(i) /\ DbIdOf(i) \in DOMAIN catalog /\ HasSql(i)
    /\ \/ InScope(DbIdOf(i), SqlTextOf(i))
       \/ \E k \in RepairCallsFor(i) :
             /\ OfferedSql(llm_log[k].reply) # <<>>
             /\ InScope(DbIdOf(i), OfferedSql(llm_log[k].reply))

\* the candidates whose repair left the violation unresolved
Dropped == {i \in 1..Len(per_db) :
               \E k \in RepairCallsFor(i) :
                   llm_log[k].reply.t = "ok" /\ ~Viable(i)}

\* the plan of the reply with the dropped items taken out of it: of the
\* remaining viable candidates, the first for each db_id, in order
PlanWithout(D) ==
    LET keep == {i \in (1..Len(per_db)) \ D :
                    /\ Viable(i)
                    /\ \A h \in (1..(i - 1)) \ D :
                          ~(Viable(h) /\ DbIdOf(h) = DbIdOf(i))}
    IN  keep

C8_Inv ==
    /\ \A i \in Dropped : idx > i
    /\ Returned => Range(out_from) = PlanWithout(Dropped)
    /\ \A m, n \in 1..Len(out_from) : m < n => out_from[m] < out_from[n]

\* no step takes an accepted item back
C8_Step ==
    /\ Len(out_list') >= Len(out_list)
    /\ SubSeq(out_list', 1, Len(out_list)) = out_list

\* C8: an item whose repair reply is unparseable, has an empty sql or still
\* fails the scope check is dropped without raising; the items accepted before
\* it stay, the later candidates are processed, and the returned plan is the
\* plan of the reply without the dropped item.
C8_DropIsNotFatal == []C8_Inv /\ [][C8_Step]_vars

\* an item dropped after its repair, the next candidate, for the same db_id,
\* accepted
C8_Witness ==
    /\ Returned
    /\ \E i \in Dropped : \E j \in Range(out_from) :
          i < j /\ DbIdOf(i) = DbIdOf(j)

\* C9: a failed LLM request (transport failure, non-2xx status), planning or
\* repair, makes plan raise: it is the last request of the call, and no plan
\* is returned, the items accepted so far included.
C9_FailedRequestRaises ==
    /\ \A k \in 1..Len(llm_log) :
          llm_log[k].reply.t = "fail" =>
              /\ k = Len(llm_log)
              /\ pc = "raised"
              /\ error = "HTTPError"
    /\ pc = "raised" => result.k = "none"
    /\ result.k # "none" => Returned

\* a repair request failed after an item had been accepted
C9_Witness ==
    /\ pc = "raised"
    /\ out_list # <<>>
    /\ llm_log[Len(llm_log)].kind = "repair"
    /\ llm_log[Len(llm_log)].reply.t = "fail"

\* the reply is one JSON value with only white space around it
ParsesDirectly(txt) ==
    \E n \in 1..Len(txt) :
        /\ txt[n].c = "json"
        /\ \A m \in (1..Len(txt)) \ {n} : txt[m] = Blanks

\* the reply ends with a JSON object, only white space after it, and holds
\* no opening brace before it
ParsesByTrailingBlock(txt) ==
    \E n \in 1..Len(txt) :
        /\ txt[n].c = "json" /\ txt[n].v.k \in {"obj", "fix"}
        /\ \A m \in (n + 1)..Len(txt) : txt[m] = Blanks
        /\ \A m \in 1..(n - 1) : txt[m].c \in {"prose", "blank"}
              \/ (txt[m].c = "json" /\ txt[m].v.k = "other")

\* the JSON value such a reply parses to
ValueIn(txt) == txt[CHOOSE n \in 1..Len(txt) :
                        txt[n].c = "json" /\ \A m \in (n + 1)..Len(txt) : txt[m] = Blanks].v

----------------------------------------------------------------------------
(* Database identifiers and letter case *)

\* str.lower() on the database identifiers of the model
LowerId(d) == CASE d = "CRM" -> "crm"
                [] d = "Billing" -> "billing"
                [] OTHER -> d

\* candidate i names, up to letter case, a database of the catalog
NamesCatalogDb(i) ==
    HasDbId(i) /\ \E db \in DOMAIN catalog : LowerId(db) = LowerId(DbIdOf(i))

\* the catalog key that candidate i names up to letter case
CatalogDbOf(i) ==
    CHOOSE db \in DOMAIN catalog : LowerId(db) = LowerId(DbIdOf(i))

\* C18: database identifiers are matched without regard to letter case: a
\* processed candidate whose db_id is a catalog key up to letter case, with a
\* non-empty sql within that database's scope and no earlier accepted item
\* of the same database, is looked up and accepted, not skipped as unknown;
\* and no two accepted items name the same database up to letter case.
C18_DbIdCaseInsensitive ==
    /\ \A i \in 1..Len(per_db) :
          (/\ Processed(i)
           /\ pc # "raised"
           /\ NamesCatalogDb(i)
           /\ HasSql(i)
           /\ InScope(CatalogDbOf(i), SqlTextOf(i))
           /\ \A d \in AcceptedBefore(i) : LowerId(d) # LowerId(DbIdOf(i)))
          => Accepted(i)
    /\ \A m, n \in 1..Len(out_list) :
          LowerId(out_list[m].db_id) = LowerId(out_list[n].db_id) => m = n

\* the leading and trailing blanks of a text
LeadBlanks(t) == SubSeq(t, 1, Len(t) - Len(LStrip(t)))

TrailBlanks(t) == SubSeq(t, Len(RStrip(t)) + 1, Len(t))

\* C20: the final_sql of a returned plan is a text: the final_sql string of
\* the reply without its leading and trailing blanks, the empty text when the
\* field is absent or no string; it is returned whether or not it is within
\* the scope of any database, and every repair request of the call is for a
\* candidate item that failed the scope check, none for final_sql.
C20_FinalSqlString ==
    Returned =>
        /\ result.final_sql \in Seq(Atoms)
        /\ data.final_sql.k = "str" =>
              /\ data.final_sql.v = LeadBlanks(data.final_sql.v)
                                      \o result.final_sql
                                      \o TrailBlanks(data.final_sql.v)
              /\ result.final_sql # <<>> =>
                    /\ result.final_sql[1] # Blank
                    /\ result.final_sql[Len(result.final_sql)] # Blank
        /\ data.final_sql.k # "str" => result.final_sql = <<>>
        /\ \A k \in RepairCalls :
              /\ llm_log[k].item \in 1..Len(per_db)
              /\ FailedScopeCheck(llm_log[k].item)

\* a plan returned with a final_sql that had blanks around it and is within
\* the scope of no database, and no repair request was made
C20_Witness ==
    /\ Returned
    /\ data.final_sql.k = "str"
    /\ result.final_sql # data.final_sql.v
    /\ result.final_sql # <<>>
    /\ \A db \in DOMAIN catalog : ~InScope(db, result.final_sql)
    /\ RepairCalls = {}
    /\ Len(result.per_db_sql) = 1

----------------------------------------------------------------------------
(* The entry points: the Run handler of ui_streamlit.py (198-396) and the   *)
(* loop of main in ask.py (67-126).  A table is [columns, rows]: the column *)
(* names in order and the rows, each a mapping from column name to value.   *)

\* the natural-language query of the run
query == <<"top", Blank, "clients">>

\* the databases of the catalog the query is planned on
RunDbs == {"crm", "Billing"}

RunCatalog ==
    [db \in RunDbs |->
        [tables |-> IF db = "crm"
                    THEN <<Table(TClients, <<Col("id", "int"), Col("name", "text")>>)>>
                    ELSE <<Table(TInvoices,
                             <<Col("client_id", "int"), Col("amount", "numeric")>>)>>]]

\* the statement the plan holds for a database
SqlFor(db) == IF db = "crm" THEN SqlClients ELSE Strip(SqlInvoices)

PlanItem(db) == [db_id |-> db, sql |-> SqlFor(db), purpose |-> "query"]

\* the plans plan() returns on RunCatalog: items of distinct databases of the
\* catalog in any order, a stripped final_sql
RunPlans ==
    {[k |-> "plan", per_db_sql |-> l, final_sql |-> Strip(FinalCross)] :
        l \in {<<>>} \cup {<<PlanItem(d)>> : d \in RunDbs}
              \cup {<<PlanItem(pr[1]), PlanItem(pr[2])>> :
                        pr \in {q \in RunDbs \X RunDbs : q[1] # q[2]}}}

\* handle_query returns a plan or raises
Logicals == RunPlans \cup {[k |-> "raised"]}

\* load_dsns(): {k.lower(): v for k, v in j.items()}
DsnOf(key) == <<"dsn", key>>

DsnFiles == {[key \in keys |-> DsnOf(key)] : keys \in SUBSET {"crm", "billing"}}

\* dsns.get(key): None when the key is missing
DictGet(d, key) == IF key \in DOMAIN d THEN d[key] ELSE <<>>

\* what the database hands back for a statement: the result set with its keys
\* and row tuples, a failure that SQLAlchemy reports as SQLAlchemyError, or a
\* failure of any other class, each at one of the four steps of exec_sql
ResultSet(keys, rows) == [k |-> "rs", keys |-> keys, rows |-> rows]

ExecSteps == {"engine", "connect", "execute", "rows"}

ResultSets(db) ==
    IF db = "crm"
    THEN {ResultSet(<<"id", "name">>, <<<<"1", "ann">>>>),
          ResultSet(<<"id", "name">>, <<<<"2", "bob">>>>)}
    ELSE {ResultSet(<<"client_id", "amount">>, <<<<"1", "9">>>>),
          ResultSet(<<"id", "amount">>, <<>>)}

DbOutcomes(db) ==
    ResultSets(db)
    \cup {[k |-> "SQLAlchemyError", step |-> st] : st \in ExecSteps}
    \cup {[k |-> "Exception", step |-> st] : st \in {"engine", "rows"}}

\* position of column c in keys
IndexOf(keys, c) == CHOOSE n \in 1..Len(keys) : keys[n] = c

\* dict(r) for a row of rs.mappings()
RowDict(keys, row) == [c \in Range(keys) |-> row[IndexOf(keys, c)]]

\* exec_sql (exec_sql.py 10-22): only SQLAlchemyError is caught, any other
\* exception leaves the function
exec_sql(dsn, sql, outcome) ==
    IF outcome.k = "rs"
    THEN [k |-> "res", columns |-> outcome.keys,
          rows |-> [n \in 1..Len(outcome.rows) |->
                        RowDict(outcome.keys, outcome.rows[n])],
          error |-> "None"]
    ELSE IF outcome.k = "SQLAlchemyError"
    THEN [k |-> "res", columns |-> <<>>, rows |-> <<>>, error |-> outcome.step]
    ELSE [k |-> "raise"]

\* pd.DataFrame(rows, columns=columns)
DataFrame(rows, columns) ==
    [columns |-> columns,
     rows |-> [n \in 1..Len(rows) |->
                  [c \in Range(columns) |->
                      IF c \in DOMAIN rows[n] THEN rows[n][c] ELSE "NaN"]]]

(* Masking: data_masking.py, tag_loader.py, ui_streamlit.py 152-193 *)

None == [k |-> "None"]

\* the content of data_masking_config.json: what each role has blocked and
\* what it is shown anonymized
MaskingConfigFile ==
    [k |-> "dict",
     roles |-> [admin  |-> [blocked_tags |-> {}, anonymize_tags |-> {}],
                intern |-> [blocked_tags |-> {"pii"},
                            anonymize_tags |-> {"financial"}]]]

\* the content of field_tag_mappings.json, in file order; a key
\* db.schema.table is kept as its three parts
TagMappingsFile ==
    [k |-> "dict",
     table_mappings |->
        <<[key |-> <<"crm", "public", "clients">>,
           val |-> [column_tags |-> [name |-> {"pii"}], table_tags |-> {}]],
          [key |-> <<"billing", "public", "invoices">>,
           val |-> [column_tags |-> [amount |-> {"financial"}], table_tags |-> {}]]>>]

\* tag_loader.load_masking_config(): the file is read
load_masking_config == [k |-> "ok", v |-> MaskingConfigFile]

\* tag_loader.load_tag_mappings called with the keyword arguments kw: the
\* function has the one parameter mappings_file, any other keyword is a
\* TypeError
load_tag_mappings(kw) ==
    IF kw \subseteq {"mappings_file"}
    THEN [k |-> "ok", v |-> TagMappingsFile]
    ELSE [k |-> "raise", e |-> "TypeError"]

\* ui_streamlit.py 152-193: config and tag_mappings after the try block; any
\* exception in it sets both to None
MaskingLoaded ==
    LET c == load_masking_config
        t == load_tag_mappings({"catalog_file", "auto_generate"})
    IN  IF c.k = "ok" /\ t.k = "ok"
        THEN [config |-> c.v, tag_mappings |-> t.v]
        ELSE [config |-> None, tag_mappings |-> None]

\* the roles of the selectbox the model distinguishes
Roles == {"admin", "intern"}

\* anonymize_value: None, NaN and the empty string stay, any other value is
\* replaced by stars
Stars == "***"

anonymize_value(v) == IF v \in {"None", "NaN", ""} THEN v ELSE Stars

\* get_table_key: public is put before a table name without a dot
get_table_key(db_id, table_name) == <<db_id, "public", table_name>>

\* tag_loader.get_field_tags: the tags of the column and of its table
get_field_tags(db_id, table_name, column, mappings) ==
    LET tm   == mappings.table_mappings
        hits == {n \in 1..Len(tm) : tm[n].key = get_table_key(db_id, table_name)}
    IN  IF hits = {} THEN {}
        ELSE LET td == tm[CHOOSE n \in hits : TRUE].val
             IN  (IF column \in DOMAIN td.column_tags
                  THEN td.column_tags[column] ELSE {}) \cup td.table_tags

\* check_role_access / should_mask_field_with_stars
should_mask_field_with_stars(r, field_tags, cfg) ==
    IF field_tags = {} THEN FALSE
    ELSE IF r \notin DOMAIN cfg.roles THEN TRUE
    ELSE field_tags \cap (cfg.roles[r].blocked_tags \cup cfg.roles[r].anonymize_tags) # {}

\* infer_table_name_from_columns: the first table of the mappings that shares
\* the most column names with the frame, None if none shares any
RECURSIVE BestMatch(_, _, _)
BestMatch(columns, tm, n) ==
    IF n = 0 THEN [best |-> None, max |-> 0]
    ELSE LET before  == BestMatch(columns, tm, n - 1)
             matches == Cardinality(Range(columns) \cap DOMAIN tm[n].val.column_tags)
         IN  IF matches > before.max
             THEN [best |-> [k |-> "key", v |-> tm[n].key], max |-> matches]
             ELSE before

infer_table_name_from_columns(columns, mappings) ==
    BestMatch(columns, mappings.table_mappings, Len(mappings.table_mappings)).best

\* mask_dataframe_for_display called without a table name: admin and an
\* empty frame get a copy; the table name is inferred from the columns (its
\* last part is used, under the db_id given); every column stays, the values
\* of the columns to mask are replaced
mask_dataframe_for_display(df, db_id, r, mappings, cfg) ==
    IF r = "admin" \/ df.rows = <<>> THEN df
    ELSE LET inferred   == infer_table_name_from_columns(df.columns, mappings)
             table_name == IF inferred.k = "key" THEN inferred.v[3] ELSE "unknown"
             db         == IF db_id # "" THEN db_id
                           ELSE IF inferred.k = "key" THEN inferred.v[1] ELSE "unknown"
         IN  [columns |-> df.columns,
              rows |-> [n \in 1..Len(df.rows) |->
                          [c \in DOMAIN df.rows[n] |->
                              IF should_mask_field_with_stars(r,
                                    get_field_tags(db, table_name, c, mappings), cfg)
                              THEN anonymize_value(df.rows[n][c])
                              ELSE df.rows[n][c]]]]

\* ui_streamlit.py 232-235, 281-291: the frame is masked if config and
\* tag_mappings are there and the role is not admin
UiMasked(df, db_id) ==
    IF config.k = "dict" /\ tag_mappings.k = "dict" /\ role # "admin"
    THEN mask_dataframe_for_display(df, db_id, role, tag_mappings, config)
    ELSE df

\* the values pandas reads as integers
IsInt(v) == v \in {"1", "2", "9"}

\* the type DuckDB gives a column of a registered frame, the dtype pandas gives
DuckType(df, c) ==
    IF df.rows # <<>> /\ \A n \in 1..Len(df.rows) : IsInt(df.rows[n][c])
    THEN "BIGINT" ELSE "VARCHAR"

DType(df, c) ==
    IF df.rows # <<>> /\ \A n \in 1..Len(df.rows) : IsInt(df.rows[n][c])
    THEN "int64" ELSE "object"

\* the "name type" strings of lines 333 and 339
TableInfoCols(df) ==
    [n \in 1..Len(df.columns) |-> <<df.columns[n], DuckType(df, df.columns[n])>>]

DTypeCols(df) ==
    [n \in 1..Len(df.columns) |-> <<df.columns[n], DType(df, df.columns[n])>>]

\* a dict kept as the sequence of its entries in insertion order
DictKeys(d) == {d[n].key : n \in 1..Len(d)}

DictSet(d, key, val) ==
    IF key \in DictKeys(d)
    THEN [n \in 1..Len(d) |-> IF d[n].key = key THEN [key |-> key, val |-> val]
                                              ELSE d[n]]
    ELSE Append(d, [key |-> key, val |-> val])

----------------------------------------------------------------------------
(* llm_generate_final_sql: llm_planner.py 1-105 *)

\* per_db_metadata values: {"columns": [...]} from the Run handler, a
\* DataFrame from ask.py
Meta(cols) == [k |-> "meta", columns |-> cols]

Frame(df) == [k |-> "frame", df |-> df]

\* table_schemas built from whatever the values hold
table_schemas_WithFrames(metadata) ==
    [n \in 1..Len(metadata) |->
        [key |-> metadata[n].key,
         columns |-> IF metadata[n].val.k = "meta"
                     THEN metadata[n].val.columns ELSE metadata[n].val.df.rows]]

\* lines 21-28: cols = meta["columns"] for a dict with that key, [] otherwise
table_schemas(metadata) ==
    [n \in 1..Len(metadata) |->
        [key |-> metadata[n].key,
         columns |-> IF metadata[n].val.k = "meta"
                     THEN metadata[n].val.columns ELSE <<>>]]

\* lines 55-95: the user message of the request holds the query and the
\* JSON text of table_schemas; everything else in the payload is fixed
Payload(nl_query, metadata) ==
    [nl_query |-> nl_query, table_schemas |-> table_schemas(metadata)]

\* the markers of a code fence in the reply: three backquotes followed by
\* sql, by SQL, by nothing
FenceSql == "[fence]sql"
FenceSQL == "[fence]SQL"
Fence    == "[fence]"

\* line 103: re.sub removes an opening fence marker with sql (re.I) at the
\* start of the text and a bare fence marker at its end
SubFence(t) ==
    LET a == IF t # <<>> /\ Head(t) \in {FenceSql, FenceSQL} THEN Tail(t) ELSE t
    IN  IF a # <<>> /\ a[Len(a)] = Fence THEN SubSeq(a, 1, Len(a) - 1) ELSE a

\* lines 101-103
CleanSql(content) == Strip(SubFence(Strip(content)))

FedSql == <<"select", Blank, Star, Blank, "from", Blank, "crm", Blank,
            "JOIN", Blank, "Billing">>

\* the contents of the replies to the federation request
FedContents ==
    { <<Blank>> \o FedSql \o <<Blank>>,
      <<FenceSql, Blank>> \o FedSql \o <<Blank, Fence, Blank>> }

\* llm_generate_final_sql ends with RuntimeError before any request (no API
\* key), with the HTTP error of the request, or with the reply's content
FedOutcomes ==
    {[k |-> "RuntimeError"], [k |-> "HTTPError"]}
    \cup {[k |-> "ok", content |-> c] : c \in FedContents}

----------------------------------------------------------------------------
(* The analytical engine *)

\* what con.execute(sql_used).df() gives: a frame, without or with columns,
\* or an exception
EngineFrames ==
    { [columns |-> <<>>, rows |-> <<>>],
      [columns |-> <<"name", "total">>,
       rows |-> <<[name |-> "ann", total |-> "9"]>>] }

EngineOutcomes == {[k |-> "Exception"]} \cup {[k |-> "df", df |-> f] : f \in EngineFrames}

\* the orders in which list(common) can list the members of a set
Orders(S) ==
    {q \in [1..Cardinality(S) -> S] : \A m, n \in DOMAIN q : q[m] = q[n] => m = n}

\* lines 360-362: the column names common to all frames
CommonCols(dfs) ==
    {c \in Range(dfs[1].val.columns) :
        \A n \in 1..Len(dfs) : c \in Range(dfs[n].val.columns)}

\* lines 367-371: every column name once, in order of first appearance
RECURSIVE Dedup(_)
Dedup(q) ==
    IF q = <<>> THEN <<>>
    ELSE LET init == Dedup(SubSeq(q, 1, Len(q) - 1))
         IN  IF q[Len(q)] \in Range(init) THEN init ELSE Append(init, q[Len(q)])

RECURSIVE AllCols(_)
AllCols(dfs) ==
    IF dfs = <<>> THEN <<>>
    ELSE AllCols(SubSeq(dfs, 1, Len(dfs) - 1)) \o dfs[Len(dfs)].val.columns

UnionCols(dfs) == Dedup(AllCols(dfs))

\* RepairedFrames that keeps a result without columns as it is
RepairedFrames_Kept(df_result, dfs) == {df_result}

\* lines 353-376: the frames a result without columns can be replaced by
RepairedFrames(df_result, dfs) ==
    IF Len(df_result.columns) # 0 THEN {df_result}
    ELSE IF dfs = <<>> THEN {[columns |-> <<>>, rows |-> <<>>]}
    ELSE IF CommonCols(dfs) # {}
    THEN {[columns |-> o, rows |-> <<>>] : o \in Orders(CommonCols(dfs))}
    ELSE {[columns |-> UnionCols(dfs), rows |-> <<>>]}

\* df.head(n) of the display calls
HeadRows == 200

Head200(df) == [columns |-> df.columns, rows |-> Take(df.rows, HeadRows)]

\* zip(per, exec_results)
Zip(a, b) ==
    [n \in 1..(IF Len(a) < Len(b) THEN Len(a) ELSE Len(b)) |-> <<a[n], b[n]>>]

----------------------------------------------------------------------------
(* The Run handler: ui_streamlit.py 198-396 *)

\* per = logical.get("per_db_sql", [])
per == logical.per_db_sql

Err(stage, db_id) == [kind |-> "error", stage |-> stage, db_id |-> db_id]

Crash ==
    /\ run_pc' = "crashed"

\* lines 205-214: the plan, its statements shown; an exception of plan()
\* leaves the handler
UiHandleQuery ==
    /\ entry = "ui"
    /\ run_pc = "idle"
    /\ calls' = Append(calls, [kind |-> "handle_query"])
    /\ IF logical.k = "raised"
       THEN Crash /\ UNCHANGED <<item_no, shown, exec_results>>
       ELSE /\ run_pc' = "exec"
            /\ item_no' = 1
            /\ exec_results' = <<>>
            /\ shown' = shown \o [n \in 1..Len(per) |->
                            [kind |-> "code", db_id |-> per[n].db_id,
                             sql |-> Strip(per[n].sql)]]
    /\ UNCHANGED <<catalog, proc_vars, scope_vars, plan_vars, entry, dsns, role, config,
                   tag_mappings, logical, per_db_dfs, per_db_metadata, sql_used, final>>

InExecLoop == run_pc = "exec" /\ item_no <= Len(per)

\* lines 218-224: no DSN for the item
UiNoDsn ==
    /\ entry = "ui"
    /\ InExecLoop
    /\ DictGet(dsns, LowerId(per[item_no].db_id)) = <<>>
    /\ shown' = Append(shown, Err("dsn", per[item_no].db_id))
    /\ item_no' = item_no + 1
    /\ UNCHANGED <<catalog, proc_vars, scope_vars, plan_vars, entry, dsns, role, config,
                   tag_mappings, logical,
                   run_pc, exec_results, per_db_dfs, per_db_metadata, sql_used,
                   final, calls>>

\* lines 218-258: one item executed; its error shown, or its table shown
\* (through the masking of the role) and kept in exec_results
UiExecItem ==
    /\ entry = "ui"
    /\ InExecLoop
    /\ LET db_id == per[item_no].db_id
           sql   == Strip(per[item_no].sql)
           dsn   == DictGet(dsns, LowerId(db_id))
       IN  /\ dsn # <<>>
           /\ \E outcome \in DbOutcomes(db_id) :
                LET res == exec_sql(dsn, sql, outcome)
                IN  /\ calls' = Append(calls, [kind |-> "exec_sql", item |-> item_no,
                                               db_id |-> db_id, dsn |-> dsn, sql |-> sql,
                                               outcome |-> outcome, res |-> res])
                    /\ IF res.k = "raise"
                       THEN Crash /\ UNCHANGED <<item_no, shown, exec_results>>
                       ELSE /\ item_no' = item_no + 1
                            /\ UNCHANGED run_pc
                            /\ IF res.error # "None"
                               THEN /\ shown' = Append(shown, Err(res.error, db_id))
                                    /\ UNCHANGED exec_results
                               ELSE /\ shown' = Append(shown,
                                        [kind |-> "table", db_id |-> db_id,
                                         df |-> UiMasked(
                                                  DataFrame(res.rows, res.columns),
                                                  db_id)])
                                    /\ exec_results' = Append(exec_results,
                                        [db_id |-> db_id, columns |-> res.columns,
                                         rows |-> res.rows])
    /\ UNCHANGED <<catalog, proc_vars, scope_vars, plan_vars, entry, dsns, role, config,
                   tag_mappings, logical,
                   per_db_dfs, per_db_metadata, sql_used, final>>

\* per_db_dfs after the loop of lines 266-291 over the first n results
RECURSIVE UiFrames(_, _)
UiFrames(results, n) ==
    IF n = 0 THEN <<>>
    ELSE DictSet(UiFrames(results, n - 1), results[n].db_id,
                 UiMasked(DataFrame(results[n].rows, results[n].columns),
                          results[n].db_id))

\* lines 260-294
UiBuildFrames ==
    /\ entry = "ui"
    /\ run_pc = "exec"
    /\ item_no > Len(per)
    /\ per_db_dfs' = UiFrames(exec_results, Len(exec_results))
    /\ run_pc' = "decide"
    /\ UNCHANGED <<catalog, proc_vars, scope_vars, plan_vars, entry, dsns, role, config,
                   tag_mappings, logical,
                   item_no, exec_results, per_db_metadata, sql_used, final, shown,
                   calls>>

\* lines 296-297
UiNothing ==
    /\ entry = "ui"
    /\ run_pc = "decide"
    /\ per_db_dfs = <<>>
    /\ shown' = Append(shown, [kind |-> "info", what |-> "nothing"])
    /\ run_pc' = "done"
    /\ UNCHANGED <<catalog, proc_vars, scope_vars, plan_vars, entry, dsns, role, config,
                   tag_mappings, logical,
                   item_no, exec_results, per_db_dfs, per_db_metadata, sql_used,
                   final, calls>>

\* lines 300-318
UiSingle ==
    /\ entry = "ui"
    /\ run_pc = "decide"
    /\ Len(per_db_dfs) = 1
    /\ final' = [k |-> "table", df |-> Head200(per_db_dfs[1].val)]
    /\ shown' = shown \o <<[kind |-> "info", what |-> "single"],
                           [kind |-> "final", df |-> Head200(per_db_dfs[1].val)]>>
    /\ run_pc' = "done"
    /\ UNCHANGED <<catalog, proc_vars, scope_vars, plan_vars, entry, dsns, role, config,
                   tag_mappings, logical,
                   item_no, exec_results, per_db_dfs, per_db_metadata, sql_used,
                   calls>>

\* lines 321-340: the frames registered in a new engine session, then one
\* PRAGMA table_info per frame; the dtypes of the frame when it fails
UiDescribe ==
    /\ entry = "ui"
    /\ run_pc = "decide"
    /\ Len(per_db_dfs) >= 2
    /\ \E introspected \in [1..Len(per_db_dfs) -> BOOLEAN] :
          per_db_metadata' =
              [n \in 1..Len(per_db_dfs) |->
                  [key |-> per_db_dfs[n].key,
                   val |-> Meta(IF introspected[n]
                                THEN TableInfoCols(per_db_dfs[n].val)
                                ELSE DTypeCols(per_db_dfs[n].val))]]
    /\ calls' = calls
                \o [n \in 1..Len(per_db_dfs) |->
                       [kind |-> "register", db_id |-> per_db_dfs[n].key,
                        df |-> per_db_dfs[n].val]]
                \o [n \in 1..Len(per_db_dfs) |->
                       [kind |-> "pragma", db_id |-> per_db_dfs[n].key]]
    /\ sessions' = Append(sessions, [query |-> query_no, relations |-> per_db_dfs])
    /\ run_pc' = "request"
    /\ UNCHANGED <<catalog, other, query_no, scope_vars, plan_vars, entry, dsns, role, config,
                   tag_mappings, logical,
                   item_no, exec_results, per_db_dfs, sql_used, final, shown>>

\* llm_generate_final_sql(nl_query, metadata) ending in outcome: the call it
\* makes, if it gets as far as the request
FedCall(metadata, outcome) ==
    IF outcome.k = "RuntimeError" THEN <<>>
    ELSE <<[kind |-> "fed_llm", payload |-> Payload(query, metadata),
            outcome |-> outcome]>>

\* UiFederationRequest going on to the engine after a failure
UiFederationRequest_Onward ==
    /\ entry = "ui"
    /\ run_pc = "request"
    /\ \E outcome \in FedOutcomes :
        /\ calls' = calls \o FedCall(per_db_metadata, outcome)
        /\ IF outcome.k # "ok"
           THEN /\ shown' = Append(shown, Err("final_sql", outcome.k))
                /\ run_pc' = "engine" /\ UNCHANGED sql_used
           ELSE /\ sql_used' = CleanSql(outcome.content)
                /\ shown' = Append(shown, [kind |-> "code", db_id |-> "final",
                                           sql |-> CleanSql(outcome.content)])
                /\ run_pc' = "engine"
    /\ UNCHANGED <<catalog, proc_vars, scope_vars, plan_vars, entry, dsns, role, config,
                   tag_mappings, logical,
                   item_no, exec_results, per_db_dfs, per_db_metadata, final>>

\* UiFederationRequest asking again after a failure
UiFederationRequest_Retried ==
    /\ entry = "ui"
    /\ run_pc = "request"
    /\ \E outcome \in FedOutcomes :
        /\ calls' = calls \o FedCall(per_db_metadata, outcome)
        /\ IF outcome.k # "ok"
           THEN /\ shown' = Append(shown, Err("final_sql", outcome.k))
                /\ UNCHANGED <<run_pc, sql_used>>
           ELSE /\ sql_used' = CleanSql(outcome.content)
                /\ shown' = Append(shown, [kind |-> "code", db_id |-> "final",
                                           sql |-> CleanSql(outcome.content)])
                /\ run_pc' = "engine"
    /\ UNCHANGED <<catalog, proc_vars, scope_vars, plan_vars, entry, dsns, role, config,
                   tag_mappings, logical,
                   item_no, exec_results, per_db_dfs, per_db_metadata, final>>

\* lines 343-347 and 395-396
UiFederationRequest ==
    /\ entry = "ui"
    /\ run_pc = "request"
    /\ \E outcome \in FedOutcomes :
        /\ calls' = calls \o FedCall(per_db_metadata, outcome)
        /\ IF outcome.k # "ok"
           THEN /\ shown' = Append(shown, Err("final_sql", outcome.k))
                /\ run_pc' = "done"
                /\ UNCHANGED sql_used
           ELSE /\ sql_used' = CleanSql(outcome.content)
                /\ shown' = Append(shown, [kind |-> "code", db_id |-> "final",
                                           sql |-> CleanSql(outcome.content)])
                /\ run_pc' = "engine"
    /\ UNCHANGED <<catalog, proc_vars, scope_vars, plan_vars, entry, dsns, role, config,
                   tag_mappings, logical,
                   item_no, exec_results, per_db_dfs, per_db_metadata, final>>

\* UiEngineExecute running the final_sql of the plan
UiEngineExecute_FinalSql ==
    /\ entry = "ui"
    /\ run_pc = "engine"
    /\ run_pc' = "done"
    /\ \E outcome \in EngineOutcomes :
        /\ calls' = Append(calls, [kind |-> "engine", sql |-> logical.final_sql,
                                   outcome |-> outcome])
        /\ IF outcome.k = "Exception"
           THEN /\ shown' = Append(shown, Err("duckdb", "final"))
                /\ UNCHANGED final
           ELSE \E df_result \in RepairedFrames(outcome.df, per_db_dfs) :
                   /\ final' = [k |-> "table", df |-> Head200(df_result)]
                   /\ shown' = Append(shown, [kind |-> "final",
                                              df |-> Head200(df_result)])
    /\ UNCHANGED <<catalog, proc_vars, scope_vars, plan_vars, entry, dsns, role, config,
                   tag_mappings, logical,
                   item_no, exec_results, per_db_dfs, per_db_metadata, sql_used>>

\* lines 349-394
UiEngineExecute ==
    /\ entry = "ui"
    /\ run_pc = "engine"
    /\ run_pc' = "done"
    /\ \E outcome \in EngineOutcomes :
        /\ calls' = Append(calls, [kind |-> "engine", sql |-> sql_used,
                                   outcome |-> outcome])
        /\ IF outcome.k = "Exception"
           THEN /\ shown' = Append(shown, Err("duckdb", "final"))
                /\ UNCHANGED final
           ELSE \E df_result \in RepairedFrames(outcome.df, per_db_dfs) :
                   /\ final' = [k |-> "table", df |-> Head200(df_result)]
                   /\ shown' = Append(shown, [kind |-> "final",
                                              df |-> Head200(df_result)])
    /\ UNCHANGED <<catalog, proc_vars, scope_vars, plan_vars, entry, dsns, role, config,
                   tag_mappings, logical,
                   item_no, exec_results, per_db_dfs, per_db_metadata, sql_used>>

----------------------------------------------------------------------------
(* One query of the loop of main: ask.py 67-126 *)

\* lines 72-80: an exception of plan() is printed and the next query read
CliHandleQuery ==
    /\ entry = "cli"
    /\ run_pc = "idle"
    /\ calls' = Append(calls, [kind |-> "handle_query"])
    /\ IF logical.k = "raised"
       THEN /\ shown' = Append(shown, Err("planner", "none"))
            /\ run_pc' = "done"
            /\ UNCHANGED <<item_no, exec_results>>
       ELSE /\ run_pc' = "exec"
            /\ item_no' = 1
            /\ exec_results' = <<>>
            /\ UNCHANGED shown
    /\ UNCHANGED <<catalog, proc_vars, scope_vars, plan_vars, entry, dsns, role, config,
                   tag_mappings, logical, per_db_dfs, per_db_metadata, sql_used, final>>

\* lines 86-95: an item without db_id or sql is passed over in silence, an
\* item without DSN after its statement and an error are printed (the db_ids
\* of the model hold no white space: strip leaves them as they are)
CliSkipItem ==
    /\ entry = "cli"
    /\ InExecLoop
    /\ LET db_id == per[item_no].db_id
           sql   == Strip(per[item_no].sql)
       IN  \/ /\ db_id = "" \/ sql = <<>>
              /\ UNCHANGED shown
           \/ /\ db_id # "" /\ sql # <<>>
              /\ DictGet(dsns, LowerId(db_id)) = <<>>
              /\ shown' = shown \o <<[kind |-> "code", db_id |-> db_id, sql |-> sql],
                                     Err("dsn", db_id)>>
    /\ item_no' = item_no + 1
    /\ UNCHANGED <<catalog, proc_vars, scope_vars, plan_vars, entry, dsns, role, config,
                   tag_mappings, logical,
                   run_pc, exec_results, per_db_dfs, per_db_metadata, sql_used,
                   final, calls>>

\* lines 86-98: one item executed and its result, error or not, appended
CliExecItem ==
    /\ entry = "cli"
    /\ InExecLoop
    /\ LET db_id == per[item_no].db_id
           sql   == Strip(per[item_no].sql)
           dsn   == DictGet(dsns, LowerId(db_id))
       IN  /\ db_id # "" /\ sql # <<>>
           /\ dsn # <<>>
           /\ \E outcome \in DbOutcomes(db_id) :
                LET res == exec_sql(dsn, sql, outcome)
                IN  /\ calls' = Append(calls, [kind |-> "exec_sql", item |-> item_no,
                                               db_id |-> db_id, dsn |-> dsn, sql |-> sql,
                                               outcome |-> outcome, res |-> res])
                    /\ shown' = Append(shown, [kind |-> "code", db_id |-> db_id,
                                               sql |-> sql])
                    /\ IF res.k = "raise"
                       THEN Crash /\ UNCHANGED <<item_no, exec_results>>
                       ELSE /\ item_no' = item_no + 1
                            /\ UNCHANGED run_pc
                            /\ exec_results' = Append(exec_results,
                                    [db_id |-> db_id,
                                     purpose |-> per[item_no].purpose,
                                     columns |-> res.columns, rows |-> res.rows])
    /\ UNCHANGED <<catalog, proc_vars, scope_vars, plan_vars, entry, dsns, role, config,
                   tag_mappings, logical,
                   per_db_dfs, per_db_metadata, sql_used, final>>

\* print_rows(rows, limit=50)
PrintLimit == 50

\* lines 100-106: the first rows of each result, under the db_id and the
\* statement of the plan item at the same position
CliShowResults ==
    /\ entry = "cli"
    /\ run_pc = "exec"
    /\ item_no > Len(per)
    /\ LET pairs == Zip(per, exec_results)
       IN  shown' = shown \o [n \in 1..Len(pairs) |->
                        [kind |-> "rows", db_id |-> pairs[n][1].db_id,
                         sql |-> Strip(pairs[n][1].sql),
                         count |-> Len(pairs[n][2].rows),
                         rows |-> Take(pairs[n][2].rows, PrintLimit)]]
    /\ run_pc' = "frames"
    /\ UNCHANGED <<catalog, proc_vars, scope_vars, plan_vars, entry, dsns, role, config,
                   tag_mappings, logical,
                   item_no, exec_results, per_db_dfs, per_db_metadata, sql_used,
                   final, calls>>

\* per_db_dfs after the loop of lines 113-116 over the first n pairs
RECURSIVE CliFrames(_, _)
CliFrames(pairs, n) ==
    IF n = 0 THEN <<>>
    ELSE DictSet(CliFrames(pairs, n - 1), pairs[n][1].db_id,
                 DataFrame(pairs[n][2].rows, pairs[n][2].columns))

\* lines 111-116
CliBuildFrames ==
    /\ entry = "cli"
    /\ run_pc = "frames"
    /\ LET pairs == Zip(per, exec_results)
       IN  per_db_dfs' = CliFrames(pairs, Len(pairs))
    /\ run_pc' = "request"
    /\ UNCHANGED <<catalog, proc_vars, scope_vars, plan_vars, entry, dsns, role, config,
                   tag_mappings, logical,
                   item_no, exec_results, per_db_metadata, sql_used, final, shown,
                   calls>>

\* lines 117-124: llm_generate_final_sql is handed the frames themselves;
\* what it returns has no "result" key, so the KeyError of line 120 is
\* printed like any failure of the call
CliFederation ==
    /\ entry = "cli"
    /\ run_pc = "request"
    /\ per_db_metadata' = [n \in 1..Len(per_db_dfs) |->
                              [key |-> per_db_dfs[n].key,
                               val |-> Frame(per_db_dfs[n].val)]]
    /\ \E outcome \in FedOutcomes :
        /\ calls' = calls \o FedCall(per_db_metadata', outcome)
        /\ IF outcome.k # "ok"
           THEN /\ shown' = Append(shown, Err("final_sql", outcome.k))
                /\ UNCHANGED sql_used
           ELSE /\ sql_used' = CleanSql(outcome.content)
                /\ shown' = Append(shown, Err("final_sql", "KeyError"))
    /\ run_pc' = "done"
    /\ UNCHANGED <<catalog, proc_vars, scope_vars, plan_vars, entry, dsns, role, config,
                   tag_mappings, logical,
                   item_no, exec_results, per_db_dfs, final>>

\* a query entered in one of the entry points, nothing done yet
RunInputs ==
    /\ entry \in {"ui", "cli"}
    /\ dsns \in DsnFiles
    /\ role \in (IF entry = "ui" THEN Roles ELSE {"admin"})
    /\ config = (IF entry = "ui" THEN MaskingLoaded.config ELSE None)
    /\ tag_mappings = (IF entry = "ui" THEN MaskingLoaded.tag_mappings ELSE None)
    /\ logical \in Logicals
    /\ run_pc = "idle"
    /\ item_no = 0
    /\ exec_results = <<>>
    /\ per_db_dfs = <<>>
    /\ per_db_metadata = <<>>
    /\ sql_used = <<>>
    /\ final = [k |-> "none"]
    /\ shown = <<>>
    /\ calls = <<>>

RunInit ==
    /\ catalog = RunCatalog
    /\ scope_db = "crm"
    /\ scope_sql = <<>>
    /\ scope_res = "unset"
    /\ PlanIdle
    /\ ProcIdle
    /\ RunInputs

RunNext ==
    \/ UiHandleQuery
    \/ UiNoDsn
    \/ UiExecItem
    \/ UiBuildFrames
    \/ UiNothing
    \/ UiSingle
    \/ UiDescribe
    \/ UiFederationRequest
    \/ UiEngineExecute
    \/ CliHandleQuery
    \/ CliSkipItem
    \/ CliExecItem
    \/ CliShowResults
    \/ CliBuildFrames
    \/ CliFederation

RunSpec == RunInit /\ [][RunNext]_vars

----------------------------------------------------------------------------
(* SessionSpec: one process serving several queries.  Either the calls of    *)
(* plan() are followed, one after the other and with a plan() call of        *)
(* another session in between its steps, or the runs of an entry point.      *)

\* runs of an entry point served one after the other
MaxQueries == 2

\* the plan() call of the other session: its planner reply and the replies
\* its repair requests may get
OtherPerDb ==
    <<Item(Str("crm"), Str(SqlCross), Absent),
      Item(Str("crm"), Str(SqlClients), Absent)>>

OtherRepairReplies == {Failed, Reply(<<Json(FixObj(Str(SqlClients)))>>)}

OtherStart ==
    [pc |-> "start", per_db |-> <<>>, idx |-> 0, out_list |-> <<>>,
     seen_db_ids |-> {}, fixes |-> <<>>]

\* the entry appended to out_list for item with the statement sql
Accepted_item(item, sql) ==
    [db_id |-> item.db_id.v, sql |-> sql, purpose |-> PurposeOf(item.purpose)]

\* llm_planner.py 253-308 in the frame of the other session: one step of its
\* call, on its own per_db, out_list and seen_db_ids
OtherStep ==
    /\ other.pc \in {"start", "loop"}
    /\ IF other.pc = "start"
       THEN other' = [other EXCEPT !.pc = "loop", !.per_db = OtherPerDb, !.idx = 1,
                                   !.out_list = <<>>, !.seen_db_ids = {}]
       ELSE IF other.idx > Len(other.per_db)
       THEN other' = [other EXCEPT !.pc = "returned"]
       ELSE LET item == other.per_db[other.idx]
                path == ItemPath(item, other.seen_db_ids, _slim_catalog(catalog))
            IN  IF path = "skip"
                THEN other' = [other EXCEPT !.idx = @ + 1]
                ELSE IF path = "accept"
                THEN other' = [other EXCEPT
                                  !.idx = @ + 1,
                                  !.out_list = Append(@, Accepted_item(item, SqlOf(item.sql))),
                                  !.seen_db_ids = @ \cup {item.db_id.v}]
                ELSE IF path = "repair"
                THEN \E reply \in OtherRepairReplies :
                        IF reply.t = "fail"
                        THEN other' = [other EXCEPT !.pc = "raised",
                                                    !.fixes = Append(@, reply)]
                        ELSE LET sql2 == RepairedSql(item.db_id.v, reply.raw,
                                                     _slim_catalog(catalog))
                             IN  other' = [other EXCEPT
                                     !.idx = @ + 1,
                                     !.fixes = Append(@, reply),
                                     !.out_list = IF sql2 # <<>>
                                                  THEN Append(@, Accepted_item(item, sql2))
                                                  ELSE @,
                                     !.seen_db_ids = IF sql2 # <<>>
                                                     THEN @ \cup {item.db_id.v} ELSE @]
                ELSE other' = [other EXCEPT !.pc = "raised"]
    /\ UNCHANGED <<catalog, scope_vars, plan_vars, run_vars, sessions, query_no>>

\* plan() is called again (ask.py 67-74, a rerun of the UI script).  The
\* accepted list and the seen set of the call before are left as they were:
\* the new call has its own only once lines 265-266 have run
PlanAgain ==
    /\ pc \in {"returned", "raised"}
    /\ pc' = "start"
    /\ slim' = <<>>
    /\ raw' = <<>>
    /\ data' = [k |-> "none"]
    /\ per_db' = <<>>
    /\ idx' = 0
    /\ llm_log' = <<>>
    /\ out_from' = <<>>
    /\ result' = [k |-> "none"]
    /\ error' = "none"
    /\ UNCHANGED <<catalog, scope_vars, run_vars, proc_vars, out_list, seen_db_ids>>

\* the next query of the entry point.  ui_streamlit.py: the script is run
\* again, in a new namespace, also after an exception.  ask.py 67-70: the
\* next pass of the while loop, the variables of the pass before still bound;
\* an exception that left the loop has ended the process.
RunAgain ==
    /\ run_pc = "done" \/ (run_pc = "crashed" /\ entry = "ui")
    /\ query_no < MaxQueries
    /\ query_no' = query_no + 1
    /\ logical' \in Logicals
    /\ run_pc' = "idle"
    /\ shown' = <<>>
    /\ calls' = <<>>
    /\ IF entry = "ui"
       THEN /\ item_no' = 0
            /\ exec_results' = <<>>
            /\ per_db_dfs' = <<>>
            /\ per_db_metadata' = <<>>
            /\ sql_used' = <<>>
            /\ final' = [k |-> "none"]
       ELSE UNCHANGED <<item_no, exec_results, per_db_dfs, per_db_metadata, sql_used,
                        final>>
    /\ UNCHANGED <<catalog, scope_vars, plan_vars, entry, dsns, role, config,
                   tag_mappings, other, sessions>>

SessionInit ==
    /\ scope_db = "crm"
    /\ scope_sql = <<>>
    /\ scope_res = "unset"
    /\ sessions = <<>>
    /\ query_no = 1
    /\ \/ /\ catalog \in PlanCatalogs
          /\ PlanIdle
          /\ other = OtherStart
          /\ run_pc = "off"
          /\ RunLocals
       \/ /\ catalog = RunCatalog
          /\ pc = "off"
          /\ PlanLocals
          /\ other = [pc |-> "off"]
          /\ RunInputs

SessionNext ==
    \/ PlanRequest
    \/ SkipItem
    \/ RaiseItem
    \/ AcceptItem
    \/ RepairItem
    \/ Return
    \/ PlanAgain
    \/ OtherStep
    \/ UiHandleQuery
    \/ UiNoDsn
    \/ UiExecItem
    \/ UiBuildFrames
    \/ UiNothing
    \/ UiSingle
    \/ UiDescribe
    \/ UiFederationRequest
    \/ UiEngineExecute
    \/ CliHandleQuery
    \/ CliSkipItem
    \/ CliExecItem
    \/ CliShowResults
    \/ CliBuildFrames
    \/ CliFederation
    \/ RunAgain

SessionSpec == SessionInit /\ [][SessionNext]_vars

----------------------------------------------------------------------------
(* Claims about the entry points, checked under RunSpec *)

\* the positions in calls of the calls of one kind
CallsOf(kind) == {n \in 1..Len(calls) : calls[n].kind = kind}

\* the query has run to its end / the entry point was left by an exception
Done == run_pc = "done"

Crashed == run_pc = "crashed"

\* the exec_sql calls that returned a result table
TableCalls ==
    {n \in CallsOf("exec_sql") : calls[n].outcome.k = "rs"}

\* the db_ids that produced a result table
Produced == {calls[n].db_id : n \in TableCalls}

\* the table the entry point holds for db_id d: the rows the database gave
\* under the returned columns, as the role of the run is shown them
SourceTable(d) ==
    LET n  == CHOOSE m \in TableCalls : calls[m].db_id = d
        rs == calls[n].outcome
    IN  UiMasked([columns |-> rs.keys,
                  rows |-> [r \in 1..Len(rs.rows) |->
                              [c \in Range(rs.keys) |->
                                  rs.rows[r][IndexOf(rs.keys, c)]]]], d)

\* the federation request or the engine was used
EngineUsed == CallsOf("register") \cup CallsOf("pragma") \cup CallsOf("engine") # {}

Says(what) == \E n \in 1..Len(shown) : shown[n] = [kind |-> "info", what |-> what]

\* C11: in both entry points, a query that ends with exactly one db_id having
\* produced a result table has that table as its final result, unchanged, and
\* has made no federation LLM request and no use of the analytical engine.
C11_SingleSourceShortCircuit ==
    (Done /\ logical.k = "plan" /\ Cardinality(Produced) = 1) =>
        /\ final.k = "table"
        /\ \A d \in Produced : final.df = SourceTable(d)
        /\ CallsOf("fed_llm") = {}
        /\ ~EngineUsed

\* C12: in both entry points, a query that ends with no db_id having produced
\* a result table says that there is nothing to federate, and has made no
\* federation LLM request and no use of the analytical engine.
C12_EmptySourceHandling ==
    (Done /\ logical.k = "plan" /\ Produced = {}) =>
        /\ Says("nothing")
        /\ final.k = "none"
        /\ CallsOf("fed_llm") = {}
        /\ ~EngineUsed

\* the federation statement ran and gave a frame / the frame it gave
EngineGave == \E n \in CallsOf("engine") : calls[n].outcome.k = "df"

EngineFrame ==
    calls[CHOOSE n \in CallsOf("engine") : calls[n].outcome.k = "df"].outcome.df

\* the column-name sets of the tables registered with the engine
RegisteredColumnSets ==
    {Range(calls[n].df.columns) : n \in CallsOf("register")}

InAll(sets) == {c \in UNION sets : \A S \in sets : c \in S}

\* C13: when the federation statement runs and gives a result without
\* columns, the final table has no rows and its columns are, each once, the
\* column names common to all registered tables, or all their column names
\* when they have none in common; a result with a column is final unchanged.
C13_DegenerateSchemaRepair ==
    (Done /\ EngineGave) =>
        /\ final.k = "table"
        /\ IF Len(EngineFrame.columns) = 0
           THEN /\ final.df.rows = <<>>
                /\ Range(final.df.columns) =
                      IF InAll(RegisteredColumnSets) # {}
                      THEN InAll(RegisteredColumnSets)
                      ELSE UNION RegisteredColumnSets
                /\ Cardinality(Range(final.df.columns)) = Len(final.df.columns)
           ELSE final.df = EngineFrame

\* a result without columns replaced by the one column two sources share
C13_Witness ==
    /\ Done
    /\ EngineGave
    /\ Len(EngineFrame.columns) = 0
    /\ final.k = "table"
    /\ final.df.columns = <<"id">>
    /\ Cardinality(UNION RegisteredColumnSets) = 3

\* the values in the rows the databases returned to the query
RowValues ==
    UNION {UNION {Range(calls[n].outcome.rows[r]) :
                      r \in 1..Len(calls[n].outcome.rows)} : n \in TableCalls}

\* the strings of a federation request's payload besides the query
PayloadStrings(payload) ==
    UNION {{payload.table_schemas[n].key}
           \cup UNION {Range(payload.table_schemas[n].columns[m]) :
                          m \in 1..Len(payload.table_schemas[n].columns)} :
           n \in 1..Len(payload.table_schemas)}

\* the names the engine and pandas have for the types of columns
TypeNames == {"BIGINT", "VARCHAR", "int64", "object"}

\* another value of the same type
OtherValue(v) == CASE v = "1" -> "2" [] v = "2" -> "1" [] v = "9" -> "1"
                   [] v = "ann" -> "bob" [] v = "bob" -> "ann" [] OTHER -> v

\* the table with the same columns and types and other values in its rows
Twin(df) ==
    [columns |-> df.columns,
     rows |-> [r \in 1..Len(df.rows) |->
                  [c \in DOMAIN df.rows[r] |-> OtherValue(df.rows[r][c])]]]

\* C14: the payload of a federation request holds the query and, for each
\* db_id in order, "name type" strings only: in the Run handler one per
\* column of that db_id's table, the column's name with a type name, in
\* ask.py none; they are the strings a run sends whose tables have the same
\* column names and types and other row values; no value of a row of any
\* source table is in the payload.
C14_MetadataOnly ==
    \A n \in CallsOf("fed_llm") :
        LET payload == calls[n].payload
        IN  /\ DOMAIN payload = {"nl_query", "table_schemas"}
            /\ payload.nl_query = query
            /\ Len(payload.table_schemas) = Len(per_db_dfs)
            /\ \A m \in 1..Len(payload.table_schemas) :
                  LET entry_m == payload.table_schemas[m]
                      names   == per_db_dfs[m].val.columns
                  IN  /\ DOMAIN entry_m = {"key", "columns"}
                      /\ entry_m.key = per_db_dfs[m].key
                      /\ IF entry = "cli" THEN entry_m.columns = <<>>
                         ELSE /\ Len(entry_m.columns) = Len(names)
                              /\ \A c \in 1..Len(names) :
                                    /\ entry_m.columns[c][1] = names[c]
                                    /\ entry_m.columns[c][2] \in TypeNames
                              /\ entry_m.columns \in
                                    {TableInfoCols(Twin(per_db_dfs[m].val)),
                                     DTypeCols(Twin(per_db_dfs[m].val))}
            /\ PayloadStrings(payload) \cap RowValues = {}

\* a request of the Run handler about two tables with rows, one of them
\* with a column of integers
C14_Witness ==
    /\ entry = "ui"
    /\ \E n \in CallsOf("fed_llm") :
          \E m \in 1..Len(calls[n].payload.table_schemas) :
              <<"id", "BIGINT">> \in Range(calls[n].payload.table_schemas[m].columns)
    /\ Cardinality(Produced) = 2
    /\ {"ann", "9"} \subseteq RowValues

\* C15: exec_sql never raises: whatever fails at whichever step, it returns
\* no columns, no rows and an error string; when nothing fails it returns no
\* error and rows that are mappings over exactly the returned columns.
C15_ExecSqlNeverRaises ==
    \A n \in CallsOf("exec_sql") :
        LET res == calls[n].res
        IN  /\ res.k = "res"
            /\ calls[n].outcome.k # "rs" =>
                  res.columns = <<>> /\ res.rows = <<>> /\ res.error # "None"
            /\ calls[n].outcome.k = "rs" =>
                  /\ res.error = "None"
                  /\ \A r \in 1..Len(res.rows) :
                        DOMAIN res.rows[r] = Range(res.columns)

\* the executions of statements on the analytical engine
EngineExecutions == CallsOf("pragma") \cup CallsOf("engine")

\* the federation request failed / the federation statement failed
FedFailed == \E n \in CallsOf("fed_llm") : calls[n].outcome.k # "ok"

EngineFailed == \E n \in CallsOf("engine") : calls[n].outcome.k = "Exception"

ErrorShown(stage) ==
    \E n \in 1..Len(shown) : shown[n].kind = "error" /\ shown[n].stage = stage

\* C16 as stated: a failed federation request or a failed federation
\* statement is reported, leaves no final table, and in a query there is at
\* most one federation request and at most one statement run by the engine.
C16_OneEngineStatement ==
    /\ Cardinality(CallsOf("fed_llm")) <= 1
    /\ Cardinality(EngineExecutions) <= 1
    /\ (Done /\ FedFailed) => ErrorShown("final_sql") /\ final.k = "none"
    /\ (Done /\ EngineFailed) => ErrorShown("duckdb") /\ final.k = "none"

\* C16: a failed federation request or a failed federation statement is
\* reported, leaves no final table and is not tried again: in a query there
\* is at most one federation request and the engine runs the statement it
\* returned at most once; the engine's other statements are one PRAGMA
\* table_info for each registered table, all before the request.
C16_FederationNotRetried ==
    /\ Cardinality(CallsOf("fed_llm")) <= 1
    /\ Cardinality(CallsOf("engine")) <= 1
    /\ Cardinality(CallsOf("pragma")) = Cardinality(CallsOf("register"))
    /\ \A n \in CallsOf("pragma") :
          \A m \in CallsOf("fed_llm") \cup CallsOf("engine") : n < m
    /\ (Done /\ FedFailed) =>
          /\ ErrorShown("final_sql")
          /\ final.k = "none"
          /\ CallsOf("engine") = {}
    /\ (Done /\ EngineFailed) => ErrorShown("duckdb") /\ final.k = "none"

\* the federation statement failed on the engine and the query ended
C16_Witness ==
    /\ Done
    /\ EngineFailed
    /\ ~FedFailed
    /\ Cardinality(EngineExecutions) = 3

\* the statements of the plan
PlanStatements == {per[n].sql : n \in 1..Len(per)}

\* the statement a federation request returned
Returned_sql(n) == CleanSql(calls[n].outcome.content)

\* C17 as stated: exec_sql is sent statements of the plan's per_db_sql only,
\* the engine runs nothing but the statement llm_generate_final_sql
\* returned, and the plan's final_sql is run nowhere.
C17_OnlyReturnedStatement ==
    logical.k = "plan" =>
        /\ \A n \in CallsOf("exec_sql") :
              calls[n].sql \in PlanStatements /\ calls[n].sql # logical.final_sql
        /\ CallsOf("pragma") = {}
        /\ \A n \in CallsOf("engine") :
              /\ \E m \in CallsOf("fed_llm") :
                    m < n /\ calls[m].outcome.k = "ok" /\ calls[n].sql = Returned_sql(m)
              /\ calls[n].sql # logical.final_sql

\* C17: exec_sql is sent statements of the plan's per_db_sql only; the engine
\* runs PRAGMA table_info on the registered tables and, besides, nothing but
\* the statement llm_generate_final_sql returned; the plan's final_sql is run
\* nowhere.
C17_FinalSqlDisplayOnly ==
    logical.k = "plan" =>
        /\ \A n \in CallsOf("exec_sql") :
              calls[n].sql \in PlanStatements /\ calls[n].sql # logical.final_sql
        /\ \A n \in CallsOf("pragma") :
              \E m \in CallsOf("register") : calls[m].db_id = calls[n].db_id
        /\ \A n \in CallsOf("engine") :
              /\ \E m \in CallsOf("fed_llm") :
                    m < n /\ calls[m].outcome.k = "ok" /\ calls[n].sql = Returned_sql(m)
              /\ calls[n].sql # logical.final_sql

\* both statements of a plan were executed and the engine ran a statement
\* that came back between code fences
C17_Witness ==
    /\ Done
    /\ logical.k = "plan"
    /\ logical.final_sql # <<>>
    /\ Cardinality(CallsOf("exec_sql")) = 2
    /\ \E n \in CallsOf("engine") :
          \E m \in CallsOf("fed_llm") :
              /\ calls[m].outcome.k = "ok"
              /\ calls[m].outcome.content # calls[n].sql
              /\ Head(calls[m].outcome.content) = FenceSql
              /\ calls[n].sql = FedSql

\* the items of the plan that have a DSN
DsnItems == {n \in 1..Len(per) : DictGet(dsns, LowerId(per[n].db_id)) # <<>>}

\* C19: the items of the plan that have a DSN are executed one after the
\* other in the order of the plan, each exactly once, whatever the earlier
\* executions ended with.
C19_SequentialIsolated ==
    logical.k = "plan" =>
        /\ \A m, n \in CallsOf("exec_sql") : m < n => calls[m].item < calls[n].item
        /\ \A n \in CallsOf("exec_sql") : calls[n].item \in DsnItems
        /\ (Done \/ Crashed) =>
              \A i \in DsnItems :
                  Cardinality({n \in CallsOf("exec_sql") : calls[n].item = i}) = 1

----------------------------------------------------------------------------
(* Further claims about plan(), checked under Spec *)

\* C21: no step of plan changes catalog_by_db: whatever the call does, repair
\* rounds and exceptions included, the catalog keeps its databases, tables
\* and columns; slim is another value, built from it, without what
\* _slim_catalog leaves out.
C21_CatalogUnchanged ==
    /\ [](/\ catalog \in PlanCatalogs
          /\ pc # "start" => slim = _slim_catalog(catalog) /\ slim # catalog)
    /\ [][catalog' = catalog]_vars

\* a call that made two repair requests and raised at the second
C21_Witness ==
    /\ pc = "raised"
    /\ Cardinality(RepairCalls) = 2
    /\ catalog \in PlanCatalogs

\* candidate i is one of those the loop passes over: no object, no db_id, no
\* sql, the db_id of an item accepted before it, a db_id not in the catalog
PassedOver(i) ==
    \/ per_db[i].k # "dict"
    \/ per_db[i].db_id.k = "none"
    \/ per_db[i].sql.k = "none"
    \/ per_db[i].sql.k = "str" /\ Strip(per_db[i].sql.v) = <<>>
    \/ HasDbId(i) /\ DbIdOf(i) \in AcceptedBefore(i)
    \/ HasDbId(i) /\ DbIdOf(i) \notin DOMAIN catalog

\* C26: a candidate that is passed over costs no LLM request and raises
\* nothing, and a returned plan has made as many repair requests as it has
\* candidates, not passed over, whose sql fails the scope check.
C26_NoRepairForSkipped ==
    /\ \A i \in 1..Len(per_db) :
          (Processed(i) /\ PassedOver(i)) =>
              /\ RepairCallsFor(i) = {}
              /\ ~(pc = "raised" /\ idx = i)
    /\ Returned =>
          Cardinality(RepairCalls) =
              Cardinality({i \in 1..Len(per_db) : ~PassedOver(i) /\ FailedScopeCheck(i)})

\* the purpose candidate i asks for
PurposeAsked(i) == IF per_db[i].purpose.k = "str" THEN per_db[i].purpose.v ELSE "query"

\* C27: the accepted items stand in out_list in the order of their
\* candidates; each has the db_id and the purpose (or "query") of its
\* candidate; its sql is the candidate's stripped sql, or, after a repair,
\* the sql the repair reply offers, whatever else that reply carries.
C27_OrderAndIdentity ==
    /\ Len(out_from) = Len(out_list)
    /\ \A m, n \in 1..Len(out_from) : m < n => out_from[m] < out_from[n]
    /\ \A m \in 1..Len(out_list) :
          LET i == out_from[m]
          IN  /\ out_list[m].db_id = DbIdOf(i)
              /\ out_list[m].purpose = PurposeAsked(i)
              /\ IF RepairCallsFor(i) = {}
                 THEN out_list[m].sql = SqlTextOf(i)
                 ELSE \A k \in RepairCallsFor(i) :
                          out_list[m].sql = OfferedSql(llm_log[k].reply)
    /\ Returned => result.per_db_sql = out_list

\* a plan of two items, the first accepted from a repair reply that names
\* another database and another purpose
C27_Witness ==
    /\ Returned
    /\ Len(result.per_db_sql) = 2
    /\ result.per_db_sql[1].db_id = "crm"
    /\ result.per_db_sql[1].purpose = "query"
    /\ \E k \in RepairCallsFor(out_from[1]) :
          /\ llm_log[k].reply.t = "ok"
          /\ llm_log[k].reply.raw = <<Json(FixObjFull(Str("billing"), Str(SqlClients),
                                                      Str("other")))>>
    /\ result.per_db_sql[2].db_id = "billing"

(* checked under BigSpec *)

Min(a, b) == IF a < b THEN a ELSE b

\* slim has the databases of the catalog; of each its first max_tables
\* tables, in order; of each table its first max_cols columns, in order, as
\* name and type
SlimIsProjection ==
    /\ DOMAIN slim = DOMAIN catalog
    /\ \A db \in DOMAIN catalog :
          LET full == catalog[db].tables
              st   == slim[db].tables
          IN  /\ Len(st) = Min(Len(full), max_tables)
              /\ \A i \in 1..Len(st) :
                    /\ st[i].fq = full[i].fq
                    /\ Len(st[i].columns) = Min(Len(full[i].columns), max_cols)
                    /\ \A j \in 1..Len(st[i].columns) :
                          st[i].columns[j] = [name |-> full[i].columns[j].name,
                                              type |-> full[i].columns[j].type]

\* every accepted item passed the scope check against slim, whose tables are
\* tables of the catalog
CheckedAgainstSlim ==
    \A m \in 1..Len(out_list) :
        /\ KeywordTables(out_list[m].sql) \subseteq KnownTables(slim, out_list[m].db_id)
        /\ KnownTables(slim, out_list[m].db_id)
               \subseteq KnownTables(catalog, out_list[m].db_id)

\* C28: slim is the projection of the catalog to its first max_tables tables
\* per database and first max_cols columns per table, each column as name and
\* type, under the same db_id keys; accepted items are checked against slim,
\* and every table an accepted item reads is a table of the full catalog.
C28_SlimProjection ==
    pc # "start" =>
        /\ SlimIsProjection
        /\ CheckedAgainstSlim
        /\ \A m \in 1..Len(out_list) :
              TablesRead(out_list[m].sql) \subseteq KnownTables(catalog, out_list[m].db_id)

----------------------------------------------------------------------------
(* Further claims about the entry points, checked under RunSpec *)

\* the execution loop has ended without an exception
LoopEnded == run_pc \in {"decide", "frames", "request", "engine", "done"} /\ logical.k = "plan"

\* the execution loop has gone past item i of the plan
PastItem(i) == i \in 1..Len(per) /\ (item_no > i \/ LoopEnded)

\* the exec_sql calls made for item i of the plan
ExecCallsOf(i) == {n \in CallsOf("exec_sql") : calls[n].item = i}

\* the db_ids the federation is given as sources: the keys of per_db_dfs,
\* the relations registered with the engine
Sources == DictKeys(per_db_dfs) \cup {calls[n].db_id : n \in CallsOf("register")}

\* the errors shown for a missing DSN
DsnErrors == {n \in 1..Len(shown) : shown[n].kind = "error" /\ shown[n].stage = "dsn"}

\* C23: a plan item without DSN is passed over: no exec_sql call for it, one
\* error shown, for that item only; the loop goes on, so that every item with
\* a DSN has been executed when the loop ends; the db_id is no federation
\* source.
C23_MissingDsnSkipped ==
    logical.k = "plan" =>
        /\ \A i \in (1..Len(per)) \ DsnItems :
              PastItem(i) =>
                  /\ ExecCallsOf(i) = {}
                  /\ Cardinality({n \in DsnErrors : shown[n].db_id = per[i].db_id}) = 1
                  /\ per[i].db_id \notin Sources
        /\ \A n \in DsnErrors : \E i \in (1..Len(per)) \ DsnItems : shown[n].db_id = per[i].db_id
        /\ LoopEnded => \A j \in DsnItems : ExecCallsOf(j) # {}

\* the exec_sql calls that returned an error
ErrorCalls ==
    {n \in CallsOf("exec_sql") : calls[n].res.k = "res" /\ calls[n].res.error # "None"}

\* C24: a plan item whose execution returned an error is no source of the
\* federation: its db_id is no key of per_db_dfs, is not registered, and the
\* number of sources the entry point decides on is the number of items that
\* gave a table.
C24_ErrorContributesNothing ==
    /\ \A n \in ErrorCalls : calls[n].db_id \notin Sources
    /\ (LoopEnded /\ run_pc # "frames") =>
          Len(per_db_dfs) = Cardinality(Produced)

\* C25: the plan is there before the first execution; the federation request
\* is made after every execution has returned, every item with a DSN having
\* been executed; the engine runs the federation statement only after a
\* federation request that returned a reply.
C25_StageOrder ==
    /\ \A n \in CallsOf("exec_sql") :
          /\ logical.k = "plan"
          /\ \E m \in CallsOf("handle_query") : m < n
    /\ \A n \in CallsOf("fed_llm") :
          /\ \A m \in CallsOf("exec_sql") : m < n /\ calls[m].res.k = "res"
          /\ \A j \in DsnItems : \E m \in ExecCallsOf(j) : m < n
    /\ \A n \in CallsOf("engine") :
          /\ Cardinality({m \in CallsOf("fed_llm") : m < n}) = 1
          /\ \A m \in CallsOf("fed_llm") :
                m < n /\ calls[m].outcome.k = "ok" /\ calls[n].sql = CleanSql(calls[m].outcome.content)

\* a query in the UI that executed two items, asked for the federation
\* statement and ran it
C25_Witness ==
    /\ entry = "ui"
    /\ Done
    /\ Cardinality(CallsOf("exec_sql")) = 2
    /\ Cardinality(CallsOf("fed_llm")) = 1
    /\ \E n \in CallsOf("engine") : calls[n].outcome.k # "Exception"

\* the table an exec_sql call returned, as the role of the run is shown it
TableOfCall(n) ==
    UiMasked(DataFrame(calls[n].res.rows, calls[n].res.columns), calls[n].db_id)

\* the exec_sql calls for db_id d that returned
ReturnedCalls(d) ==
    {n \in CallsOf("exec_sql") : calls[n].db_id = d /\ calls[n].res.k = "res"}

\* C29: every table shown for a db_id, every frame kept under a db_id and
\* every relation registered under a db_id is what the execution of the plan
\* item with that db_id returned.
C29_ResultAttribution ==
    /\ \A n \in 1..Len(shown) :
          /\ shown[n].kind = "table" =>
                \E m \in ReturnedCalls(shown[n].db_id) : shown[n].df = TableOfCall(m)
          /\ shown[n].kind = "rows" =>
                \E m \in ReturnedCalls(shown[n].db_id) :
                    /\ shown[n].sql = calls[m].sql
                    /\ shown[n].count = Len(calls[m].res.rows)
                    /\ shown[n].rows = Take(calls[m].res.rows, PrintLimit)
    /\ \A n \in 1..Len(per_db_dfs) :
          \E m \in ReturnedCalls(per_db_dfs[n].key) : per_db_dfs[n].val = TableOfCall(m)
    /\ \A n \in CallsOf("register") :
          \E m \in ReturnedCalls(calls[n].db_id) : calls[n].df = TableOfCall(m)

\* the tags field_tag_mappings.json gives column c of the tables of db_id
TagsOnFile(db_id, c) ==
    LET tm == TagMappingsFile.table_mappings
    IN  UNION {(IF c \in DOMAIN tm[n].val.column_tags
                THEN tm[n].val.column_tags[c] ELSE {}) \cup tm[n].val.table_tags :
               n \in {m \in 1..Len(tm) : tm[m].key[1] = db_id}}

\* role r has a tag of column c of db_id blocked or anonymized
Sensitive(r, db_id, c) ==
    TagsOnFile(db_id, c)
        \cap (MaskingConfigFile.roles[r].blocked_tags
              \cup MaskingConfigFile.roles[r].anonymize_tags) # {}

\* every value of frame df in a column that is sensitive in one of the
\* databases dbs is starred (or is no value)
StarMasked(df, dbs) ==
    \A n \in 1..Len(df.rows) :
        \A c \in DOMAIN df.rows[n] :
            (\E d \in dbs : Sensitive(role, d, c)) =>
                df.rows[n][c] \in {Stars, "None", "NaN", ""}

\* C30: in the UI, for a role other than admin, the values of the sensitive
\* columns are starred in every per-DB table shown and in the final table,
\* and the per-DB tables keep all columns and rows.
C30_MaskedBeforeDisplay ==
    (entry = "ui" /\ role # "admin") =>
        \A n \in 1..Len(shown) :
            /\ shown[n].kind = "table" =>
                  /\ StarMasked(shown[n].df, {shown[n].db_id})
                  /\ \E m \in ReturnedCalls(shown[n].db_id) :
                        /\ shown[n].df.columns = calls[m].res.columns
                        /\ Len(shown[n].df.rows) = Len(calls[m].res.rows)
            /\ shown[n].kind = "final" =>
                  StarMasked(shown[n].df, DictKeys(per_db_dfs))

----------------------------------------------------------------------------
(* A claim about successive and interleaved queries, checked under           *)
(* SessionSpec                                                               *)

\* the plan a call of plan() comes to when it is alone: the loop of lines
\* 267-302 from candidate i on, with the accepted list out and the seen set
\* seen, the repair requests being answered by fixes in order
RECURSIVE LoopFrom(_, _, _, _, _, _)
LoopFrom(items, i, out, seen, fixes, slimcat) ==
    IF i > Len(items) THEN [k |-> "plan", per_db_sql |-> out]
    ELSE LET item == items[i]
             path == ItemPath(item, seen, slimcat)
         IN  IF path = "skip"
             THEN LoopFrom(items, i + 1, out, seen, fixes, slimcat)
             ELSE IF path = "accept"
             THEN LoopFrom(items, i + 1,
                           Append(out, Accepted_item(item, SqlOf(item.sql))),
                           seen \cup {item.db_id.v}, fixes, slimcat)
             ELSE IF path = "repair"
             THEN IF fixes = <<>> \/ Head(fixes).t = "fail"
                  THEN [k |-> "raised"]
                  ELSE LET sql2 == RepairedSql(item.db_id.v, Head(fixes).raw, slimcat)
                       IN  IF sql2 # <<>>
                           THEN LoopFrom(items, i + 1,
                                         Append(out, Accepted_item(item, sql2)),
                                         seen \cup {item.db_id.v}, Tail(fixes), slimcat)
                           ELSE LoopFrom(items, i + 1, out, seen, Tail(fixes), slimcat)
             ELSE [k |-> "raised"]

\* the least of a set of positions
FirstOf(S) == CHOOSE n \in S : \A m \in S : n <= m

PlanAlone(items, fixes) == LoopFrom(items, 1, <<>>, {}, fixes, _slim_catalog(catalog))

\* the replies the repair requests of this call got, in order
FixesOf(log) == [n \in 1..(Len(log) - 1) |-> log[n + 1].reply]

\* C22: whatever was served before and whatever another session is doing, a
\* call of plan() returns the plan it returns alone on the same catalog,
\* candidates and repair replies, and so does the call of the other session;
\* a federation registers its frames, and no others, with an engine session
\* created for this query.
C22_QueriesIndependent ==
    /\ Returned =>
          PlanAlone(per_db, FixesOf(llm_log)) =
              [k |-> "plan", per_db_sql |-> result.per_db_sql]
    /\ other.pc = "returned" =>
          PlanAlone(other.per_db, other.fixes) =
              [k |-> "plan", per_db_sql |-> other.out_list]
    /\ \A n \in 1..Len(sessions) : sessions[n].query <= query_no
    /\ CallsOf("register") # {} =>
          /\ sessions # <<>>
          /\ sessions[Len(sessions)] = [query |-> query_no, relations |-> per_db_dfs]
          /\ \A m \in 1..(Len(sessions) - 1) : sessions[m].query < query_no
          /\ [n \in 1..Len(per_db_dfs) |->
                 [kind |-> "register", db_id |-> per_db_dfs[n].key,
                  df |-> per_db_dfs[n].val]]
             = [n \in 1..Len(per_db_dfs) |-> calls[FirstOf(CallsOf("register")) + n - 1]]

\* the second run of the UI has federated two sources in an engine session
\* of its own, the session of the first run still being there
C22_Witness ==
    /\ entry = "ui"
    /\ query_no = 2
    /\ Done
    /\ Len(sessions) = 2
    /\ sessions[1].query = 1
    /\ sessions[1].relations # sessions[2].relations
    /\ final.k # "none"

====
